---------------------------- MODULE Spec2Model ----------------------------
(***************************************************************************)
(* A model of the lexical core of the solar Solidity compiler front end:   *)
(*   - the raw-token cursor   (crates/parse/src/lexer/cursor/mod.rs)       *)
(*   - the unescape engine    (crates/parse/src/lexer/unescape/mod.rs)     *)
(*   - the span algebra       (crates/interface/src/span.rs)               *)
(*   - the session            (crates/interface/src/session.rs)            *)
(*   - the character predicates, the bulk scanning helpers and the builtin *)
(*     table (cursor/mod.rs, simd_lexer.rs, regress.rs, builtins/mod.rs)   *)
(* Bytes are the integers 0..255, byte strings are sequences of bytes and  *)
(* offsets are 0-based as in the source (b[p + 1] is the byte at offset p).*)
(***************************************************************************)
EXTENDS Integers, Sequences, FiniteSets, TLC

VARIABLES
    bytes,      \* Cursor.bytes: the input of the cursor
    pos,        \* Cursor.pos: the cursor offset
    tokens,     \* every RawToken returned so far, in call order
    ret,        \* what the last call on the cursor returned, and through which API
    src,        \* unescape: the literal's source text (quotes stripped)
    mode,       \* unescape: Mode
    entry,      \* unescape: the public function called
    upc,        \* unescape: where the call stands
    ui,         \* unescape: the scan offset (i of unescape_str, the chars iterator of unescape_hex_str)
    hex,        \* unescape_hex_str: emit_underscore_errors, allow_underscore, even
    calls,      \* unescape: every (range, result) handed to the engine's callback
    dst,        \* parse_literal_unescape_into: the bytes written to dst_buf
    errs,       \* try_parse_string_literal: every (range, error) handed to f
    out,        \* try_parse_string_literal: the bytes returned
    sa,         \* span: a Span value the program holds
    sb,         \* span: another Span value the program holds
    sop,        \* span: the last Span operation, its arguments and what it returned
    debug_assertions,  \* span: whether the build has debug assertions on
    builder,    \* session: the SessionBuilder (dcx, source_map, opts.threads)
    sess,       \* session: what SessionBuilder::build gave: nothing yet, a panic or a Session
    arcs,       \* session: the number of SourceMap objects allocated so far
    SESSION_COUNTER,  \* session: the global session counter
    cores,      \* session: the number of logical cores of the machine
    stack,      \* session: the call of spawn or join the calling thread is in
    pool,       \* session: the closures handed to the rayon thread pool
    log,        \* session: closures started and ended, and calls returned, in order
    invocation, \* pure functions: the function called and its argument
    outcome,    \* pure functions: what the call returned, once it has
    sessions,   \* threads: every Session built so far, in the order build returned them
    minting,    \* threads: per calling thread, the build in progress and the id it took
    SOURCE_MAP_CACHE,  \* threads: per thread, the thread-local source map cache
    session_globals,   \* threads: per thread, the source map of the session globals in scope
    entered,    \* threads: per calling thread, the enter or enter_parallel call it is in
    workers,    \* threads: per worker thread of a pool, how far it is and what ran on it
    got         \* threads: the last return of get_cached_source_map

cursorVars == <<bytes, pos, tokens, ret>>

unescapeVars == <<src, mode, entry, upc, ui, hex, calls, dst, errs, out>>

spanVars == <<sa, sb, sop, debug_assertions>>

sessionVars == <<builder, sess, arcs, SESSION_COUNTER, cores, stack, pool, log>>

callVars == <<invocation, outcome>>

enterVars == <<sessions, minting, SOURCE_MAP_CACHE, session_globals, entered, workers, got>>

vars == <<bytes, pos, tokens, ret, src, mode, entry, upc, ui, hex, calls, dst, errs, out,
          sa, sb, sop, debug_assertions,
          builder, sess, arcs, SESSION_COUNTER, cores, stack, pool, log,
          invocation, outcome,
          sessions, minting, SOURCE_MAP_CACHE, session_globals, entered, workers, got>>

(***************************************************************************)
(* Bounds of the model.                                                    *)
(***************************************************************************)
\* Inputs of the cursor are made of at most MaxChars characters of one alphabet.
MaxChars == 4
\* Calls made on a cursor after it has returned Eof for the first time.
MaxEofCalls == 2
\* Sources of the unescape engine are made of at most MaxSrcChars pieces of one alphabet.
MaxSrcChars == 4
\* Byte positions are the numbers below PosLimit; u32 arithmetic wraps at PosLimit.
PosLimit == 5
\* Iterators given to join_many and join_first_last yield at most MaxJoin spans.
MaxJoin == 3
\* At most MaxArcs SourceMap objects are allocated.
MaxArcs == 2
\* At most MaxSessions sessions are built.
MaxSessions == 2
\* A session is asked to spawn or join at most MaxCalls times.
MaxCalls == 2
\* The largest scalar value given to the character predicates.
MaxCodePoint == 767
\* The largest index given to Builtin::from_index.
MaxIndex == 300
\* The longest input given to the bulk scanning helpers.
MaxBulkLen == 66

(***************************************************************************)
(* Byte values.                                                            *)
(***************************************************************************)
TAB == 9
LF == 10
CR == 13
SPACE == 32
DQUOTE == 34
HASH == 35
DOLLAR == 36
SQUOTE == 39
STAR == 42
PLUS == 43
MINUS == 45
DOT == 46
SLASH == 47
SEMI == 59
BACKSLASH == 92
UNDERSCORE == 95

\* u8
Byte == 0..255

\* u8::MAX, the largest value of the builtins' Primitive.
Primitive_MAX == 255

\* The chunk width of the bitmask helpers.
SIMD_WIDTH == 32

Digit == 48..57
Lower == 97..122
Upper == 65..90
HexLetter == (97..102) \cup (65..70)

\* "hex" and "unicode" as bytes
HexWord == <<104, 101, 120>>
UnicodeWord == <<117, 110, 105, 99, 111, 100, 101>>

(***************************************************************************)
(* Character classification (cursor/mod.rs 16-50).                         *)
(***************************************************************************)
\* Each predicate is the set of the bytes it accepts.
is_whitespace_byte == {SPACE, TAB, LF, CR}

is_id_start_byte == Lower \cup Upper \cup {UNDERSCORE, DOLLAR}

is_id_continue_byte ==
    LET is_number == {c \in Byte : (c >= 48) /\ (c <= 57)}
    IN  is_id_start_byte \cup is_number

is_ascii_digit == Digit

is_ascii_hexdigit == Digit \cup HexLetter

is_ascii(c) == c < 128

\* const EOF: u8 = b'\0'
EOF == 0

(***************************************************************************)
(* Cursor primitives.                                                      *)
(***************************************************************************)
\* self.bytes.get(self.pos).copied().unwrap_or(EOF)
first(b, p) == IF p < Len(b) THEN b[p + 1] ELSE EOF

\* self.bytes.get(self.pos + 1).copied().unwrap_or(EOF)
second(b, p) == IF p + 1 < Len(b) THEN b[p + 2] ELSE EOF

\* self.pos += 1
bump(p) == p + 1

\* Mutant of bump_utf8_with: the whole length of the character is skipped, though
\* its leading byte has been consumed already.
bump_utf8_with_Mut(x) ==
    CASE x < 128 -> 1
      [] x < 224 -> 2
      [] x < 240 -> 3
      [] OTHER   -> 4

\* bump_utf8_with without the arm of the 4-byte characters.
bump_utf8_with_Short(x) ==
    CASE x < 128 -> 0
      [] x < 224 -> 1
      [] OTHER   -> 2

\* The number of bytes bump_utf8_with skips after a leading byte x.
bump_utf8_with(x) ==
    CASE x < 128 -> 0
      [] x < 224 -> 1
      [] x < 240 -> 2
      [] OTHER   -> 3

\* Some(byte) and the offset after it, or None at the end of the input.
bump_ret(b, p) ==
    IF p < Len(b)
    THEN [some |-> TRUE, c |-> b[p + 1], pos |-> p + 1]
    ELSE [some |-> FALSE, c |-> EOF, pos |-> p]

\* The offset after eating bytes while the predicate holds; the predicate is
\* given as the set of the bytes it accepts.
\* Mutant of eat_while: the loop body runs at most once.
eat_while_One(b, p, predicate) ==
    IF p < Len(b) /\ b[p + 1] \in predicate THEN p + 1 ELSE p

eat_while(b, p, predicate) ==
    LET RECURSIVE go(_)
        go(q) == IF q < Len(b) /\ b[q + 1] \in predicate THEN go(q + 1) ELSE q
    IN  go(p)

\* eat_digits counting an underscore as a digit.
eat_digits_Underscore(b, p, is_digit) ==
    LET RECURSIVE go(_, _)
        go(q, has_digits) ==
            IF q < Len(b)
            THEN CASE b[q + 1] = UNDERSCORE -> go(q + 1, TRUE)
                   [] b[q + 1] # UNDERSCORE /\ b[q + 1] \in is_digit -> go(q + 1, TRUE)
                   [] OTHER -> [pos |-> q, has_digits |-> has_digits]
            ELSE [pos |-> q, has_digits |-> has_digits]
    IN  go(p, FALSE)

\* Eats '_' and digits; has_digits is set by digits only.
eat_digits(b, p, is_digit) ==
    LET RECURSIVE go(_, _)
        go(q, has_digits) ==
            IF q < Len(b)
            THEN CASE b[q + 1] = UNDERSCORE -> go(q + 1, has_digits)
                   [] b[q + 1] # UNDERSCORE /\ b[q + 1] \in is_digit -> go(q + 1, TRUE)
                   [] OTHER -> [pos |-> q, has_digits |-> has_digits]
            ELSE [pos |-> q, has_digits |-> has_digits]
    IN  go(p, FALSE)

eat_decimal_digits(b, p) == eat_digits(b, p, is_ascii_digit)

eat_hexadecimal_digits(b, p) == eat_digits(b, p, is_ascii_hexdigit)

\* eat_exponent accepting a '+' sign as well.
eat_exponent_Sign(b, p) ==
    LET q == IF first(b, p) \in {MINUS, PLUS} THEN bump(p) ELSE p
    IN  eat_decimal_digits(b, q)

\* Called after 'e' or 'E': an optional '-' and a decimal digit run.
eat_exponent(b, p) ==
    LET q == IF first(b, p) = MINUS THEN bump(p) ELSE p
    IN  eat_decimal_digits(b, q)

\* eat_string without the skip of an escaped byte.
eat_string_NoEscape(b, p, quote) ==
    LET RECURSIVE go(_)
        go(q) ==
            IF q < Len(b)
            THEN IF b[q + 1] = quote
                 THEN [pos |-> q + 1, terminated |-> TRUE]
                 ELSE go(q + 1)
            ELSE [pos |-> q, terminated |-> FALSE]
    IN  go(p)

\* Eats a string up to the closing quote; terminated tells whether it was found.
eat_string(b, p, quote) ==
    LET RECURSIVE go(_)
        go(q) ==
            IF q < Len(b)
            THEN LET c == b[q + 1]
                     q1 == q + 1
                 IN  IF c = quote
                     THEN [pos |-> q1, terminated |-> TRUE]
                     ELSE IF c = BACKSLASH /\ q1 < Len(b)
                               /\ (b[q1 + 1] = BACKSLASH \/ b[q1 + 1] = quote)
                          THEN go(q1 + 1)
                          ELSE go(q1)
            ELSE [pos |-> q, terminated |-> FALSE]
    IN  go(p)


(***************************************************************************)
(* Raw token kinds.  A kind is a record whose field kind names the variant *)
(* and whose other fields are the variant's flags.                         *)
(***************************************************************************)
Tok(name) == [kind |-> name]

LineCommentKind(is_doc) == [kind |-> "LineComment", is_doc |-> is_doc]

BlockCommentKind(is_doc, terminated) ==
    [kind |-> "BlockComment", is_doc |-> is_doc, terminated |-> terminated]

IntKind(base, empty_int) ==
    [kind |-> "Literal", lit |-> "Int", base |-> base, empty_int |-> empty_int]

RationalKind(base, empty_exponent) ==
    [kind |-> "Literal", lit |-> "Rational", base |-> base,
     empty_exponent |-> empty_exponent]

StrLitKind(str_kind, terminated) ==
    [kind |-> "Literal", lit |-> "Str", str_kind |-> str_kind,
     terminated |-> terminated]

\* RawToken::new(kind, len)
RawToken(kind, len) == [kind |-> kind, len |-> len]

\* RawToken::EOF
RawTokenEOF == RawToken(Tok("Eof"), 0)

\* The one-symbol tokens of advance_token_kind.
Punctuators == {59, 44, 46, 40, 41, 123, 125, 91, 93, 126, 63, 58, 61, 33, 60,
                62, 45, 38, 124, 43, 42, 94, 37}

PunctuatorKind(c) ==
    CASE c = 59 -> Tok("Semi")        [] c = 44 -> Tok("Comma")
      [] c = 46 -> Tok("Dot")         [] c = 40 -> Tok("OpenParen")
      [] c = 41 -> Tok("CloseParen")  [] c = 123 -> Tok("OpenBrace")
      [] c = 125 -> Tok("CloseBrace") [] c = 91 -> Tok("OpenBracket")
      [] c = 93 -> Tok("CloseBracket") [] c = 126 -> Tok("Tilde")
      [] c = 63 -> Tok("Question")    [] c = 58 -> Tok("Colon")
      [] c = 61 -> Tok("Eq")          [] c = 33 -> Tok("Bang")
      [] c = 60 -> Tok("Lt")          [] c = 62 -> Tok("Gt")
      [] c = 45 -> Tok("Minus")       [] c = 38 -> Tok("And")
      [] c = 124 -> Tok("Or")         [] c = 43 -> Tok("Plus")
      [] c = 42 -> Tok("Star")        [] c = 94 -> Tok("Caret")
      [] c = 37 -> Tok("Percent")

(***************************************************************************)
(* The scanners of the cursor.  Each takes the input and the offset at     *)
(* which the source function is entered and returns the token kind and the *)
(* offset at which the function leaves the cursor.                         *)
(***************************************************************************)
\* memchr2(b'\n', b'\r', remaining): the offset of the first LF or CR at or
\* after p, or Len(b) when there is none.
find_line_end(b, p) == eat_while(b, p, Byte \ {LF, CR})

\* line_comment deciding is_doc on the third slash alone.
line_comment_ThirdSlash(b, p) ==
    LET p1 == bump(p)
        is_doc == first(b, p1) = SLASH
    IN  [kind |-> LineCommentKind(is_doc), pos |-> find_line_end(b, p1)]

line_comment(b, p) ==
    LET p1 == bump(p)
        is_doc == first(b, p1) = SLASH /\ second(b, p1) # SLASH
    IN  [kind |-> LineCommentKind(is_doc), pos |-> find_line_end(b, p1)]

\* memmem find of "*/" in b[p..]: the offset relative to p, or -1.
find_star_slash(b, p) ==
    LET RECURSIVE go(_)
        go(q) == IF q + 1 < Len(b)
                 THEN IF b[q + 1] = STAR /\ b[q + 2] = SLASH THEN q - p ELSE go(q + 1)
                 ELSE -1
    IN  go(p)

\* block_comment searching for the terminator from the '*' of the opener.
block_comment_Reuse(b, p) ==
    LET p1 == bump(p)
        is_doc == first(b, p1) = STAR /\ second(b, p1) \notin {STAR, SLASH}
        found == find_star_slash(b, p)
        terminated == found >= 0
        n == IF terminated THEN found + 2 ELSE Len(b) - p
    IN  [kind |-> BlockCommentKind(is_doc, terminated), pos |-> p + n]

block_comment(b, p) ==
    LET p1 == bump(p)
        is_doc == first(b, p1) = STAR /\ second(b, p1) \notin {STAR, SLASH}
        found == find_star_slash(b, p1)
        terminated == found >= 0
        n == IF terminated THEN found + 2 ELSE Len(b) - p1
    IN  [kind |-> BlockCommentKind(is_doc, terminated), pos |-> p1 + n]

whitespace(b, p) ==
    [kind |-> Tok("Whitespace"), pos |-> eat_while(b, p, is_whitespace_byte)]

\* ident_or_prefixed_literal taking any identifier that begins with the prefix.
ident_or_prefixed_literal_Prefix(b, p, first_byte) ==
    LET start_pos == p - 1
        p1 == eat_while(b, p, is_id_continue_byte)
        id == SubSeq(b, start_pos + 1, p1)
        is_hex == SubSeq(id, 1, 3) = HexWord
        quote == first(b, p1)
    IN  IF first_byte \in {104, 117} /\ (is_hex \/ SubSeq(id, 1, 7) = UnicodeWord)
           /\ quote \in {SQUOTE, DQUOTE}
        THEN LET s == eat_string(b, bump(p1), quote)
             IN  [kind |-> StrLitKind(IF is_hex THEN "Hex" ELSE "Unicode", s.terminated),
                  pos |-> s.pos]
        ELSE [kind |-> Tok("Ident"), pos |-> p1]

ident_or_prefixed_literal(b, p, first_byte) ==
    LET start_pos == p - 1
        p1 == eat_while(b, p, is_id_continue_byte)
        id == SubSeq(b, start_pos + 1, p1)
        is_hex == id = HexWord
        quote == first(b, p1)
    IN  IF first_byte \in {104, 117} /\ (is_hex \/ id = UnicodeWord)
           /\ quote \in {SQUOTE, DQUOTE}
        THEN LET s == eat_string(b, bump(p1), quote)
             IN  [kind |-> StrLitKind(IF is_hex THEN "Hex" ELSE "Unicode", s.terminated),
                  pos |-> s.pos]
        ELSE [kind |-> Tok("Ident"), pos |-> p1]

rational_number_after_dot(b, p, base) ==
    LET p1 == eat_decimal_digits(b, p).pos
    IN  IF first(b, p1) \in {101, 69}
        THEN LET e == eat_exponent(b, bump(p1))
             IN  [kind |-> RationalKind(base, ~e.has_digits), pos |-> e.pos]
        ELSE [kind |-> RationalKind(base, FALSE), pos |-> p1]

\* Mutant of number_tail: the `|| self.second() == b'_'` clause is dropped.
number_tail_Mut(b, p, base) ==
    CASE first(b, p) = DOT /\ second(b, p) \notin is_id_start_byte ->
             rational_number_after_dot(b, bump(p), base)
      [] first(b, p) \in {101, 69} ->
             LET e == eat_exponent(b, bump(p))
             IN  [kind |-> RationalKind(base, ~e.has_digits), pos |-> e.pos]
      [] OTHER -> [kind |-> IntKind(base, FALSE), pos |-> p]

\* number_tail consuming every '.' after the integer part.
number_tail_Greedy(b, p, base) ==
    CASE first(b, p) = DOT -> rational_number_after_dot(b, bump(p), base)
      [] first(b, p) \in {101, 69} ->
             LET e == eat_exponent(b, bump(p))
             IN  [kind |-> RationalKind(base, ~e.has_digits), pos |-> e.pos]
      [] OTHER -> [kind |-> IntKind(base, FALSE), pos |-> p]

\* The tail of number(): what follows the integer part (lines 300-313).
number_tail(b, p, base) ==
    CASE first(b, p) = DOT
           /\ (second(b, p) \notin is_id_start_byte \/ second(b, p) = UNDERSCORE) ->
             rational_number_after_dot(b, bump(p), base)
      [] first(b, p) \in {101, 69} ->
             LET e == eat_exponent(b, bump(p))
             IN  [kind |-> RationalKind(base, ~e.has_digits), pos |-> e.pos]
      [] OTHER -> [kind |-> IntKind(base, FALSE), pos |-> p]

number(b, p, first_digit) ==
    IF first_digit = 48
    THEN LET f == first(b, p)
         IN  CASE f \in {98, 111, 120} ->
                    LET base == CASE f = 98 -> "Binary" [] f = 111 -> "Octal"
                                  [] OTHER -> "Hexadecimal"
                        d == IF f = 120 THEN eat_hexadecimal_digits(b, bump(p))
                                        ELSE eat_decimal_digits(b, bump(p))
                    IN  IF ~d.has_digits
                        THEN [kind |-> IntKind(base, TRUE), pos |-> d.pos]
                        ELSE number_tail(b, d.pos, base)
               [] f \in Digit \cup {UNDERSCORE, DOT, 101, 69} ->
                    number_tail(b, eat_decimal_digits(b, p).pos, "Decimal")
               [] OTHER -> [kind |-> IntKind("Decimal", FALSE), pos |-> p]
    ELSE number_tail(b, eat_decimal_digits(b, p).pos, "Decimal")

\* p is the offset after first_char.
advance_token_kind(b, p, first_char) ==
    CASE first_char = SLASH ->
            (CASE first(b, p) = SLASH -> line_comment(b, p)
               [] first(b, p) = STAR -> block_comment(b, p)
               [] OTHER -> [kind |-> Tok("Slash"), pos |-> p])
      [] first_char # SLASH /\ first_char \in is_whitespace_byte -> whitespace(b, p)
      [] first_char \in is_id_start_byte -> ident_or_prefixed_literal(b, p, first_char)
      [] first_char \in Digit ->
            LET n == number(b, p, first_char)
            IN  [kind |-> n.kind, pos |-> n.pos]
      [] first_char = DOT /\ first(b, p) \in is_ascii_digit ->
            rational_number_after_dot(b, p, "Decimal")
      [] first_char \in Punctuators /\ ~(first_char = DOT /\ first(b, p) \in is_ascii_digit) ->
            [kind |-> PunctuatorKind(first_char), pos |-> p]
      [] first_char \in {SQUOTE, DQUOTE} ->
            LET s == eat_string(b, p, first_char)
            IN  [kind |-> StrLitKind("Str", s.terminated), pos |-> s.pos]
      [] OTHER ->
            [kind |-> Tok("Unknown"),
             pos |-> IF ~is_ascii(first_char) THEN p + bump_utf8_with(first_char) ELSE p]

\* Mutant of advance_token: start_pos is read after the first byte is consumed.
advance_token_Mut(b, p) ==
    LET r == bump_ret(b, p)
        start_pos == r.pos
    IN  IF ~r.some
        THEN [tok |-> RawTokenEOF, pos |-> r.pos]
        ELSE LET k == advance_token_kind(b, r.pos, r.c)
             IN  [tok |-> RawToken(k.kind, k.pos - start_pos), pos |-> k.pos]

\* Mutant of advance_token: the kind depends on the byte eaten before the token.
advance_token_LookBehind(b, p) ==
    LET start_pos == p
        r == bump_ret(b, p)
    IN  IF ~r.some
        THEN [tok |-> RawTokenEOF, pos |-> r.pos]
        ELSE LET k == advance_token_kind(b, r.pos, r.c)
                 kind == IF p > 0 /\ b[p] \in is_whitespace_byte
                         THEN Tok("Unknown") ELSE k.kind
             IN  [tok |-> RawToken(kind, k.pos - start_pos), pos |-> k.pos]

\* The token returned by a call made at offset p, and the offset it leaves.
advance_token(b, p) ==
    LET start_pos == p
        r == bump_ret(b, p)
    IN  IF ~r.some
        THEN [tok |-> RawTokenEOF, pos |-> r.pos]
        ELSE LET k == advance_token_kind(b, r.pos, r.c)
             IN  [tok |-> RawToken(k.kind, k.pos - start_pos), pos |-> k.pos]

(***************************************************************************)
(* Inputs of the cursor.  Cursor::new takes a &str, so every input is      *)
(* valid UTF-8: a concatenation of whole characters.  A character is the   *)
(* byte sequence of its UTF-8 encoding; "hex" and "unicode" are entered as *)
(* whole words so that prefixed literals fit in MaxChars.                  *)
(***************************************************************************)
Ch(c) == <<c>>

\* U+00E8, U+20AC and U+1F600: a 2-byte, a 3-byte and a 4-byte character.
Char2 == <<195, 168>>
Char3 == <<226, 130, 172>>
Char4 == <<240, 159, 152, 128>>

LineCommentAlphabet == {Ch(SLASH), Ch(LF), Ch(CR), Ch(120), Ch(SPACE)}

BlockCommentAlphabet == {Ch(SLASH), Ch(STAR), Ch(120), Ch(LF), Char2}

PrefixAlphabet == {Ch(48), Ch(120), Ch(98), Ch(UNDERSCORE), Ch(102)}

OctalAlphabet == {Ch(48), Ch(111), Ch(49), Ch(UNDERSCORE), Ch(SEMI)}

RationalAlphabet == {Ch(49), Ch(DOT), Ch(101), Ch(MINUS), Ch(120)}

ExponentAlphabet == {Ch(48), Ch(DOT), Ch(69), Ch(PLUS), Ch(UNDERSCORE)}

StringAlphabet == {Ch(DQUOTE), Ch(SQUOTE), Ch(BACKSLASH), Ch(120), Ch(LF)}

PrefixedStringAlphabet == {HexWord, UnicodeWord, Ch(DQUOTE), Ch(120), Ch(BACKSLASH)}

UnknownAlphabet == {Char2, Char3, Char4, Ch(HASH), Ch(EOF)}

IdentAlphabet == {Ch(120), Ch(DOLLAR), Ch(SPACE), Ch(TAB), Ch(49)}

MixedAlphabet == {Ch(49), Ch(DOT), Ch(120), Ch(SLASH), Ch(DQUOTE)}

\* A binary prefix entered as one piece, its digits, a dot and an exponent.
BasedRationalAlphabet == {<<48, 98>>, Ch(49), Ch(DOT), Ch(101), Ch(120)}

\* The words hex and Hex with both quotes and a space.
PrefixedQuoteAlphabet == {HexWord, <<72, 101, 120>>, Ch(SQUOTE), Ch(DQUOTE), Ch(SPACE)}

Alphabets == {LineCommentAlphabet, BlockCommentAlphabet, PrefixAlphabet, OctalAlphabet,
              RationalAlphabet, ExponentAlphabet, StringAlphabet, PrefixedStringAlphabet,
              UnknownAlphabet, IdentAlphabet, MixedAlphabet, BasedRationalAlphabet,
              PrefixedQuoteAlphabet}

RECURSIVE Concat(_)
Concat(ss) == IF ss = <<>> THEN <<>> ELSE Head(ss) \o Concat(Tail(ss))

Inputs(A) == {Concat(cs) : cs \in UNION {[1..n -> A] : n \in 0..MaxChars}}

CursorInputs == UNION {Inputs(A) : A \in Alphabets}

(***************************************************************************)
(* The cursor as a state machine: Cursor::new, then calls of advance_token *)
(* and of Iterator::next in any order.                                     *)
(***************************************************************************)
\* The components a specification does not exercise stay in these states.
CursorIdle == bytes = <<>> /\ pos = 0 /\ tokens = <<>> /\ ret = [api |-> "none"]

UnescapeIdle ==
    /\ src = <<>> /\ mode = "Str" /\ entry = "none" /\ upc = "idle" /\ ui = 0
    /\ hex = [emit_underscore_errors |-> TRUE, allow_underscore |-> FALSE, even |-> TRUE]
    /\ calls = <<>> /\ dst = <<>> /\ errs = <<>> /\ out = <<>>

SpanIdle ==
    /\ sa = [lo |-> 0, hi |-> 0] /\ sb = [lo |-> 0, hi |-> 0]
    /\ sop = [op |-> "none"] /\ debug_assertions = FALSE

\* Option::None of a source map or of a thread count.
None == 0

\* The dcx field of a builder whose diagnostic context is not set.
NoDcx == [set |-> FALSE, source_map |-> None]

SessionIdle ==
    /\ builder = [dcx |-> NoDcx, source_map |-> None, threads |-> None]
    /\ sess = [state |-> "none"]
    /\ arcs = 0 /\ SESSION_COUNTER = 0 /\ cores = 1
    /\ stack = <<>> /\ pool = {} /\ log = <<>>

\* The threads of the model: two threads that use sessions, and the worker
\* threads solar-0 and solar-1 of the pool each of them may build.
Callers == {"main", "other"}

\* The thread that enters sessions and builds the pool.
Entering == {"main"}

\* thread_name(|i| format!("solar-{i}")) of the pool's threads.
WorkerName == [i \in 0..1 |-> IF i = 0 THEN "solar-0" ELSE "solar-1"]

WorkerThreads == {WorkerName[i] : i \in 0..1}

Threads == Callers \cup WorkerThreads

\* SOURCE_MAP_CACHE holding None, and holding Some((id, sm)).
NoCache == [set |-> FALSE, id |-> 0, sm |-> None]

Cached(id, sm) == [set |-> TRUE, id |-> id, sm |-> sm]

\* A calling thread that is in no call, and one that is building nothing.
NotEntered == [fn |-> "none"]

NotMinting == [busy |-> FALSE]

\* A worker thread that does not exist.
NoWorker == [state |-> "none"]

NoGot == [thread |-> "none"]

EnterIdle ==
    /\ sessions = <<>>
    /\ minting = [t \in Callers |-> NotMinting]
    /\ SOURCE_MAP_CACHE = [t \in Threads |-> NoCache]
    /\ session_globals = [t \in Threads |-> None]
    /\ entered = [t \in Callers |-> NotEntered]
    /\ workers = [w \in WorkerThreads |-> NoWorker]
    /\ got = NoGot

\* No pure function has been called.
CallIdle == invocation = [fn |-> "none"] /\ outcome = [returned |-> FALSE]

EofCalls == Cardinality({i \in 1..Len(tokens) : tokens[i].kind.kind = "Eof"})

\* Cursor::new(input)
CursorInit ==
    /\ bytes \in CursorInputs
    /\ pos = 0
    /\ tokens = <<>>
    /\ ret = [api |-> "new"]
    /\ UnescapeIdle /\ SpanIdle /\ SessionIdle /\ CallIdle /\ EnterIdle

\* One call of Cursor::advance_token.
AdvanceToken ==
    LET r == advance_token(bytes, pos)
    IN  /\ EofCalls < MaxEofCalls
        /\ pos' = r.pos
        /\ tokens' = Append(tokens, r.tok)
        /\ ret' = [api |-> "advance_token", tok |-> r.tok]
        /\ UNCHANGED <<bytes, unescapeVars, spanVars, sessionVars, callVars, enterVars>>

\* Mutant of IteratorNext: the Eof token is not turned into None.
IteratorNext_Mut ==
    LET r == advance_token(bytes, pos)
    IN  /\ EofCalls < MaxEofCalls
        /\ pos' = r.pos
        /\ tokens' = Append(tokens, r.tok)
        /\ ret' = [api |-> "next", some |-> TRUE, tok |-> r.tok]
        /\ UNCHANGED <<bytes, unescapeVars, spanVars, sessionVars, callVars, enterVars>>

\* One call of <Cursor as Iterator>::next.
IteratorNext ==
    LET r == advance_token(bytes, pos)
    IN  /\ EofCalls < MaxEofCalls
        /\ pos' = r.pos
        /\ tokens' = Append(tokens, r.tok)
        /\ ret' = IF r.tok.kind = Tok("Eof")
                  THEN [api |-> "next", some |-> FALSE]
                  ELSE [api |-> "next", some |-> TRUE, tok |-> r.tok]
        /\ UNCHANGED <<bytes, unescapeVars, spanVars, sessionVars, callVars, enterVars>>

CursorNext == AdvanceToken \/ IteratorNext

SpecCursor == CursorInit /\ [][CursorNext]_vars

(***************************************************************************)
(* Helpers of the cursor properties.                                       *)
(***************************************************************************)
Last(s) == s[Len(s)]

RECURSIVE SumLen(_)
SumLen(ts) == IF ts = <<>> THEN 0 ELSE Head(ts).len + SumLen(Tail(ts))

IsEof(t) == t.kind.kind = "Eof"

NonEof(ts) == SelectSeq(ts, LAMBDA t : ~IsEof(t))

\* The cursor has just returned its first Eof.
CursorDone == tokens # <<>> /\ IsEof(Last(tokens)) /\ EofCalls = 1

\* str::is_char_boundary
IsCharBoundary(b, k) == k = 0 \/ k = Len(b) \/ b[k + 1] \notin 128..191

\* The tokens a fresh cursor over b yields before Eof.
Lex(b) ==
    LET RECURSIVE go(_, _)
        go(p, acc) ==
            LET r == advance_token(b, p)
            IN  IF IsEof(r.tok) THEN acc ELSE go(r.pos, Append(acc, r.tok))
    IN  go(0, <<>>)

(***************************************************************************)
(* C1: the tokens tile the input in source order: after every call the     *)
(* cursor offset is the sum of the lengths returned so far, it never       *)
(* exceeds the input length, and once Eof is returned the lengths sum to   *)
(* exactly the input length.                                               *)
(***************************************************************************)
C1_TokensTileInput ==
    /\ pos = SumLen(NonEof(tokens))
    /\ pos <= Len(bytes)
    /\ (tokens # <<>> /\ IsEof(Last(tokens))) => SumLen(NonEof(tokens)) = Len(bytes)

\* An input with a 4-byte character lexed to Eof in at least three tokens.
C1_Witness ==
    /\ CursorDone
    /\ Len(tokens) >= 4
    /\ \E i \in 1..Len(tokens) : tokens[i].len = 4 /\ tokens[i].kind = Tok("Unknown")

(***************************************************************************)
(* C2: a call made while input remains returns a non-Eof token of length   *)
(* at least 1 and moves the offset forward by that length, so an input of  *)
(* n bytes yields at most n non-Eof tokens.                                *)
(***************************************************************************)
C2_EveryTokenConsumes ==
    [][pos < Len(bytes) =>
          /\ ~IsEof(Last(tokens'))
          /\ Last(tokens').len >= 1
          /\ pos' = pos + Last(tokens').len
          /\ Len(NonEof(tokens')) <= Len(bytes)]_vars

\* An input of n >= 3 bytes that took exactly n tokens to reach Eof.
C2_Witness ==
    /\ CursorDone
    /\ Len(bytes) >= 3
    /\ Len(NonEof(tokens)) = Len(bytes)

(***************************************************************************)
(* C3: once the offset is at the end of the input, every call returns Eof  *)
(* with length 0 and leaves the offset where it is, and Iterator::next     *)
(* returns None, on that call and on every later one.                      *)
(***************************************************************************)
C3_EofIsSticky ==
    [][pos = Len(bytes) =>
          /\ pos' = pos
          /\ Last(tokens') = [kind |-> [kind |-> "Eof"], len |-> 0]
          /\ ret'.api = "advance_token" => ret'.tok = Last(tokens')
          /\ ret'.api = "next" => ~ret'.some]_vars

\* Iterator::next has returned None after an earlier call had already met the end.
C3_Witness ==
    /\ EofCalls >= 2
    /\ Len(bytes) >= 1
    /\ ret.api = "next" /\ ~ret.some

(***************************************************************************)
(* C4: lexing is insensitive to trailing input.                            *)
(***************************************************************************)
\* The final token of tp and the token of ts at the same index.
SameStart(tp, ts) ==
    /\ Len(tp) <= Len(ts)
    /\ \A i \in 1..(Len(tp) - 1) : tp[i] = ts[i]

\* p ends with the '.' that follows an integer part, which s continues with an
\* identifier-start byte other than '_': p's final token is the Rational that
\* takes the '.', s's token is the Int that leaves it.
DotLookahead(p, s, tp, ts) ==
    /\ Len(p) < Len(s)
    /\ Last(p) = DOT
    /\ s[Len(p) + 1] \in is_id_start_byte /\ s[Len(p) + 1] # UNDERSCORE
    /\ Last(tp).kind.kind = "Literal" /\ Last(tp).kind.lit = "Rational"
    /\ ts[Len(tp)].kind.kind = "Literal" /\ ts[Len(tp)].kind.lit = "Int"
    /\ Last(tp).len = ts[Len(tp)].len + 1

CharPrefixes(s) == {SubSeq(s, 1, k) : k \in {j \in 0..Len(s) : IsCharBoundary(s, j)}}

\* C4 as stated: for every prefix p of the input s, the tokens of p are a prefix
\* of the tokens of s, except that the final token of p may be a truncated form
\* of the token of s that starts at the same offset (it is not longer).
C4_PrefixTruncatedOnly ==
    CursorDone =>
        \A p \in CharPrefixes(bytes) :
            LET tp == Lex(p)
                ts == NonEof(tokens)
            IN  tp # <<>> =>
                    /\ SameStart(tp, ts)
                    /\ Last(tp).len <= ts[Len(tp)].len

\* C4 as amended: the final token of p starts at the same offset as a token of
\* s and is not longer than it, unless p ends with the '.' after an integer
\* part and s goes on with an identifier-start byte other than '_'; then p's
\* final token is the Rational one byte longer than the Int of s.
C4_PrefixUpToDotLookahead ==
    CursorDone =>
        \A p \in CharPrefixes(bytes) :
            LET tp == Lex(p)
                ts == NonEof(tokens)
            IN  tp # <<>> =>
                    /\ SameStart(tp, ts)
                    /\ \/ Last(tp).len <= ts[Len(tp)].len
                       \/ DotLookahead(p, bytes, tp, ts)

\* A prefix that ends inside a token of s: two whole tokens, then a truncated one.
C4_Witness ==
    /\ CursorDone
    /\ \E p \in CharPrefixes(bytes) :
          LET tp == Lex(p)
              ts == NonEof(tokens)
          IN  /\ Len(tp) >= 2
              /\ SameStart(tp, ts)
              /\ Last(tp).len < ts[Len(tp)].len

(***************************************************************************)
(*                          The unescape engine                            *)
(*                (crates/parse/src/lexer/unescape/mod.rs)                 *)
(***************************************************************************)
Modes == {"Str", "UnicodeStr", "HexStr"}

\* A callback invocation: the range lo..hi and Ok(code point) or Err(error).
OkCall(lo, hi, c) == [lo |-> lo, hi |-> hi, ok |-> TRUE, c |-> c]

ErrCall(lo, hi, e) == [lo |-> lo, hi |-> hi, ok |-> FALSE, e |-> e]

\* The length of the UTF-8 character whose leading byte is c (char::len_utf8 of
\* the character a Chars iterator yields at that byte).
len_utf8(c) ==
    CASE c < 128 -> 1
      [] c >= 128 /\ c < 224 -> 2
      [] c >= 224 /\ c < 240 -> 3
      [] OTHER -> 4

\* char::to_digit(16) of the character that starts with byte c; -1 for None.
to_digit16(c) ==
    CASE c \in 48..57 -> c - 48
      [] c \in 97..102 -> c - 87
      [] c \in 65..70 -> c - 55
      [] OTHER -> -1

\* memchr3(b'\\', b'\n', b'\r', src).is_some()
needs_unescape_chars(s) == \E k \in 1..Len(s) : s[k] \in {BACKSLASH, LF, CR}

\* str::is_ascii
str_is_ascii(s) == \A k \in 1..Len(s) : s[k] < 128

\* hex::check_raw: every byte is a hex digit (no prefix is stripped).
hex_check_raw(s) == \A k \in 1..Len(s) : s[k] \in is_ascii_hexdigit

needs_unescape(s, m) ==
    CASE m = "Str" -> needs_unescape_chars(s) \/ ~str_is_ascii(s)
      [] m = "UnicodeStr" -> needs_unescape_chars(s)
      [] m = "HexStr" -> Len(s) % 2 # 0 \/ ~hex_check_raw(s)

\* hex::decode: an optional 0x prefix is stripped; Err (ok = FALSE) when the
\* length is odd or a byte is no hex digit.
hex_decode(s) ==
    LET t == IF Len(s) >= 2 /\ s[1] = 48 /\ s[2] = 120 THEN SubSeq(s, 3, Len(s)) ELSE s
    IN  IF Len(t) % 2 # 0 \/ ~hex_check_raw(t)
        THEN [ok |-> FALSE, bytes |-> <<>>]
        ELSE [ok |-> TRUE,
              bytes |-> [k \in 1..(Len(t) \div 2) |->
                            16 * to_digit16(t[2 * k - 1]) + to_digit16(t[2 * k])]]

\* super::utf8::encode_utf8_raw: the UTF-8-like encoding of any code, 1 to 4 bytes.
encode_utf8_raw(c) ==
    CASE c < 128 -> <<c>>
      [] c >= 128 /\ c < 2048 -> <<192 + (c \div 64), 128 + (c % 64)>>
      [] c >= 2048 /\ c < 65536 ->
            <<224 + (c \div 4096), 128 + ((c \div 64) % 64), 128 + (c % 64)>>
      [] OTHER ->
            <<240 + (c \div 262144), 128 + ((c \div 4096) % 64),
              128 + ((c \div 64) % 64), 128 + (c % 64)>>

\* scan_hex_digits leaving the character that is no hex digit unread.
scan_hex_digits_Peek(s, q, n, too_short, invalid) ==
    LET RECURSIVE go(_, _, _)
        go(p, k, value) ==
            IF k = 0 THEN [ok |-> TRUE, c |-> value, pos |-> p]
            ELSE IF p >= Len(s) THEN [ok |-> FALSE, e |-> too_short, pos |-> p]
            ELSE LET d == to_digit16(s[p + 1])
                     p1 == p + len_utf8(s[p + 1])
                 IN  IF d < 0 THEN [ok |-> FALSE, e |-> invalid, pos |-> p]
                     ELSE go(p1, k - 1, value * 16 + d)
    IN  go(q, n, 0)

\* The n hex digits of a \x or \u escape, read from offset q on.
scan_hex_digits(s, q, n, too_short, invalid) ==
    LET RECURSIVE go(_, _, _)
        go(p, k, value) ==
            IF k = 0 THEN [ok |-> TRUE, c |-> value, pos |-> p]
            ELSE IF p >= Len(s) THEN [ok |-> FALSE, e |-> too_short, pos |-> p]
            ELSE LET d == to_digit16(s[p + 1])
                     p1 == p + len_utf8(s[p + 1])
                 IN  IF d < 0 THEN [ok |-> FALSE, e |-> invalid, pos |-> p1]
                     ELSE go(p1, k - 1, value * 16 + d)
    IN  go(q, n, 0)

\* scan_escape leaving the character of an invalid escape unread.
scan_escape_KeepInvalid(s, p) ==
    IF p >= Len(s) THEN [ok |-> FALSE, e |-> "LoneSlash", pos |-> p]
    ELSE LET c == s[p + 1]
             p1 == p + len_utf8(c)
         IN  CASE c = SQUOTE -> [ok |-> TRUE, c |-> SQUOTE, pos |-> p1]
               [] c = DQUOTE -> [ok |-> TRUE, c |-> DQUOTE, pos |-> p1]
               [] c = BACKSLASH -> [ok |-> TRUE, c |-> BACKSLASH, pos |-> p1]
               [] c = 110 -> [ok |-> TRUE, c |-> LF, pos |-> p1]
               [] c = 114 -> [ok |-> TRUE, c |-> CR, pos |-> p1]
               [] c = 116 -> [ok |-> TRUE, c |-> TAB, pos |-> p1]
               [] c = 120 ->
                    scan_hex_digits(s, p1, 2, "HexEscapeTooShort", "InvalidHexEscape")
               [] c = 117 ->
                    scan_hex_digits(s, p1, 4, "UnicodeEscapeTooShort",
                                    "InvalidUnicodeEscape")
               [] OTHER -> [ok |-> FALSE, e |-> "InvalidEscape", pos |-> p]

\* scan_escape on the characters from offset p (just after the backslash); pos
\* is the offset of the first character it has not consumed.
scan_escape(s, p) ==
    IF p >= Len(s) THEN [ok |-> FALSE, e |-> "LoneSlash", pos |-> p]
    ELSE LET c == s[p + 1]
             p1 == p + len_utf8(c)
         IN  CASE c = SQUOTE -> [ok |-> TRUE, c |-> SQUOTE, pos |-> p1]
               [] c = DQUOTE -> [ok |-> TRUE, c |-> DQUOTE, pos |-> p1]
               [] c = BACKSLASH -> [ok |-> TRUE, c |-> BACKSLASH, pos |-> p1]
               [] c = 110 -> [ok |-> TRUE, c |-> LF, pos |-> p1]
               [] c = 114 -> [ok |-> TRUE, c |-> CR, pos |-> p1]
               [] c = 116 -> [ok |-> TRUE, c |-> TAB, pos |-> p1]
               [] c = 120 ->
                    scan_hex_digits(s, p1, 2, "HexEscapeTooShort", "InvalidHexEscape")
               [] c = 117 ->
                    scan_hex_digits(s, p1, 4, "UnicodeEscapeTooShort",
                                    "InvalidUnicodeEscape")
               [] OTHER -> [ok |-> FALSE, e |-> "InvalidEscape", pos |-> p1]

\* find_next_non_ascii_or_special that does not stop at a line feed.
find_next_non_ascii_or_special_PastLF(s, start, len) ==
    LET RECURSIVE go(_)
        go(k) == IF k < len /\ s[k + 1] \notin {BACKSLASH, CR} /\ s[k + 1] < 128
                 THEN go(k + 1) ELSE k
    IN  go(start)

\* The end of the run of plain ASCII bytes that starts at offset start.
find_next_non_ascii_or_special(s, start, len) ==
    LET RECURSIVE go(_)
        go(k) == IF k < len /\ s[k + 1] \notin {BACKSLASH, LF, CR} /\ s[k + 1] < 128
                 THEN go(k + 1) ELSE k
    IN  go(start)

IsCont(b) == b \in 128..191

\* decode_utf8_with_len taking every non-ASCII byte for an invalid start byte.
decode_utf8_with_len_Invalid(s, p) ==
    IF Len(s) - p = 0 THEN <<0, 65533>>
    ELSE IF s[p + 1] <= 127 THEN <<1, s[p + 1]>> ELSE <<1, 65533>>

\* decode_utf8_with_len on the bytes of s from offset p on: <<length, code point>>.
decode_utf8_with_len(s, p) ==
    LET n == Len(s) - p
        b1 == s[p + 1]
    IN  IF n = 0 THEN <<0, 65533>>
        ELSE CASE b1 <= 127 -> <<1, b1>>
               [] b1 \in 192..223 ->
                    IF n >= 2 /\ IsCont(s[p + 2])
                    THEN <<2, (b1 % 32) * 64 + (s[p + 2] % 64)>>
                    ELSE <<1, 65533>>
               [] b1 \in 224..239 ->
                    IF n >= 3 /\ IsCont(s[p + 2]) /\ IsCont(s[p + 3])
                    THEN <<3, (b1 % 16) * 4096 + (s[p + 2] % 64) * 64 + (s[p + 3] % 64)>>
                    ELSE <<1, 65533>>
               [] b1 \in 240..247 ->
                    IF n >= 4 /\ IsCont(s[p + 2]) /\ IsCont(s[p + 3]) /\ IsCont(s[p + 4])
                    THEN <<4, (b1 % 8) * 262144 + (s[p + 2] % 64) * 4096
                              + (s[p + 3] % 64) * 64 + (s[p + 4] % 64)>>
                    ELSE <<1, 65533>>
               [] OTHER -> <<1, 65533>>

\* skip_ascii_whitespace_bytes_fast reporting a CR LF pair but skipping only
\* the CR.
skip_ascii_whitespace_bytes_fast_Mut(s, p) ==
    LET len == Len(s)
        RECURSIVE go(_, _)
        go(k, cs) ==
            IF k >= len THEN [pos |-> k, calls |-> cs]
            ELSE CASE s[k + 1] \in {SPACE, TAB} ->
                        go(eat_while(s, k, {SPACE, TAB}), cs)
                   [] s[k + 1] = LF ->
                        go(k + 1, Append(cs, ErrCall(k, k + 1, "CannotSkipMultipleLines")))
                   [] s[k + 1] = CR ->
                        IF k + 1 < len /\ s[k + 2] = LF
                        THEN go(k + 1, Append(cs, ErrCall(k, k + 2, "CannotSkipMultipleLines")))
                        ELSE go(k + 1, Append(cs, ErrCall(k, k + 1, "BareCarriageReturn")))
                   [] OTHER -> [pos |-> k, calls |-> cs]
    IN  go(p, <<>>)

\* skip_ascii_whitespace_bytes_fast skipping spaces and tabs only.
skip_ascii_whitespace_bytes_fast_Stop(s, p) ==
    [pos |-> eat_while(s, p, {SPACE, TAB}), calls |-> <<>>]

\* skip_ascii_whitespace_bytes_fast from offset p: the offset it returns and
\* the callbacks it makes.
skip_ascii_whitespace_bytes_fast(s, p) ==
    LET len == Len(s)
        RECURSIVE go(_, _)
        go(k, cs) ==
            IF k >= len THEN [pos |-> k, calls |-> cs]
            ELSE CASE s[k + 1] \in {SPACE, TAB} ->
                        go(eat_while(s, k, {SPACE, TAB}), cs)
                   [] s[k + 1] = LF ->
                        go(k + 1, Append(cs, ErrCall(k, k + 1, "CannotSkipMultipleLines")))
                   [] s[k + 1] = CR ->
                        IF k + 1 < len /\ s[k + 2] = LF
                        THEN go(k + 2, Append(cs, ErrCall(k, k + 2, "CannotSkipMultipleLines")))
                        ELSE go(k + 1, Append(cs, ErrCall(k, k + 1, "BareCarriageReturn")))
                   [] OTHER -> [pos |-> k, calls |-> cs]
    IN  go(p, <<>>)

\* One iteration of the while loop of unescape_str entered with i < len: the
\* next i, the callbacks made, and whether the loop is left by break.
unescape_str_step(s, is_unicode, i) ==
    LET len == Len(s)
        start == i
        c == s[i + 1]
        Step(ni, cs) == [i |-> ni, calls |-> cs, brk |-> FALSE]
    IN  CASE c = BACKSLASH ->
               IF i + 1 >= len
               THEN [i |-> i, calls |-> <<ErrCall(start, start + 1, "LoneSlash")>>,
                     brk |-> TRUE]
               ELSE CASE s[i + 2] = CR /\ i + 2 < len /\ s[i + 3] = LF ->
                            LET w == skip_ascii_whitespace_bytes_fast(s, i + 3)
                            IN  Step(w.pos, w.calls)
                      [] s[i + 2] = LF ->
                            LET w == skip_ascii_whitespace_bytes_fast(s, i + 2)
                            IN  Step(w.pos, w.calls)
                      [] OTHER ->
                            LET res == scan_escape(s, i + 1)
                                consumed == res.pos - i
                            IN  Step(i + consumed,
                                     <<IF res.ok THEN OkCall(start, start + consumed, res.c)
                                       ELSE ErrCall(start, start + consumed, res.e)>>)
          [] c = LF -> Step(i + 1, <<ErrCall(start, start + 1, "StrNewline")>>)
          [] c = CR ->
               IF i + 1 < len /\ s[i + 2] = LF
               THEN Step(i + 1, <<>>)
               ELSE Step(i + 1, <<ErrCall(start, start + 1, "BareCarriageReturn")>>)
          [] c \notin {BACKSLASH, LF, CR} /\ c <= 127 ->
               LET ascii_end == find_next_non_ascii_or_special(s, i, len)
               IN  IF ascii_end > i + 1
                   THEN Step(ascii_end,
                             [k \in 1..(ascii_end - i) |->
                                 OkCall(i + k - 1, i + k, s[i + k])])
                   ELSE Step(i + 1, <<OkCall(start, start + 1, c)>>)
          [] OTHER ->
               LET d == decode_utf8_with_len(s, i)
                   actual_len == IF d[1] < len - i THEN d[1] ELSE len - i
               IN  Step(i + actual_len,
                        <<IF ~is_unicode
                          THEN ErrCall(start, start + actual_len, "StrNonAsciiChar")
                          ELSE OkCall(start, start + actual_len, d[2])>>)

\* The state of the for loop of unescape_hex_str.
HexState(emit, allow, even) ==
    [emit_underscore_errors |-> emit, allow_underscore |-> allow, even |-> even]

\* unescape_hex_str counting the hex digits of the whole source, the `0` of
\* the prefix included.
unescape_hex_str_start_CountAll(s) ==
    LET prefixed == Len(s) >= 2 /\ s[1] = 48 /\ s[2] \in {120, 88}
        p == IF prefixed THEN 2 ELSE 0
        cs == IF prefixed THEN <<ErrCall(0, 2, "HexPrefix")>> ELSE <<>>
        count == Cardinality({k \in 1..Len(s) : s[k] \in is_ascii_hexdigit})
    IN  IF count % 2 # 0
        THEN [pos |-> p, calls |-> Append(cs, ErrCall(0, Len(s), "HexOddDigits")),
              returned |-> TRUE]
        ELSE [pos |-> p, calls |-> cs, returned |-> FALSE]

\* unescape_hex_str up to its for loop: the offset of the chars iterator, the
\* callbacks made and whether the function has returned (odd digit count).
unescape_hex_str_start(s) ==
    LET prefixed == Len(s) >= 2 /\ s[1] = 48 /\ s[2] \in {120, 88}
        p == IF prefixed THEN 2 ELSE 0
        cs == IF prefixed THEN <<ErrCall(0, 2, "HexPrefix")>> ELSE <<>>
        count == Cardinality({k \in (p + 1)..Len(s) : s[k] \in is_ascii_hexdigit})
    IN  IF count % 2 # 0
        THEN [pos |-> p, calls |-> Append(cs, ErrCall(0, Len(s), "HexOddDigits")),
              returned |-> TRUE]
        ELSE [pos |-> p, calls |-> cs, returned |-> FALSE]

\* The for loop of unescape_hex_str reporting every misplaced underscore.
unescape_hex_str_step_Spam(s, start, h) ==
    LET c == s[start + 1]
        end == start + len_utf8(c)
    IN  CASE c = UNDERSCORE ->
               IF ~h.allow_underscore \/ ~h.even
               THEN [pos |-> end, hex |-> h,
                     calls |-> <<ErrCall(start, end, "HexBadUnderscore")>>]
               ELSE [pos |-> end, hex |-> HexState(h.emit_underscore_errors, FALSE, h.even),
                     calls |-> <<>>]
          [] c # UNDERSCORE /\ c \notin is_ascii_hexdigit ->
               [pos |-> end, hex |-> h, calls |-> <<ErrCall(start, end, "HexNotHexDigit")>>]
          [] OTHER ->
               [pos |-> end, hex |-> HexState(h.emit_underscore_errors, TRUE, ~h.even),
                calls |-> <<OkCall(start, end, c)>>]

\* One iteration of the for loop of unescape_hex_str, on the character at
\* offset start: the next offset, the loop state and the callbacks made.
unescape_hex_str_step(s, start, h) ==
    LET c == s[start + 1]
        end == start + len_utf8(c)
    IN  CASE c = UNDERSCORE ->
               IF h.emit_underscore_errors /\ (~h.allow_underscore \/ ~h.even)
               THEN [pos |-> end, hex |-> HexState(FALSE, h.allow_underscore, h.even),
                     calls |-> <<ErrCall(start, end, "HexBadUnderscore")>>]
               ELSE [pos |-> end, hex |-> HexState(h.emit_underscore_errors, FALSE, h.even),
                     calls |-> <<>>]
          [] c # UNDERSCORE /\ c \notin is_ascii_hexdigit ->
               [pos |-> end, hex |-> h, calls |-> <<ErrCall(start, end, "HexNotHexDigit")>>]
          [] OTHER ->
               [pos |-> end, hex |-> HexState(h.emit_underscore_errors, TRUE, ~h.even),
                calls |-> <<OkCall(start, end, c)>>]

\* The check made after the for loop of unescape_hex_str.
unescape_hex_str_end(s, h) ==
    IF h.emit_underscore_errors /\ Len(s) > 1 /\ s[Len(s)] = UNDERSCORE
    THEN <<ErrCall(Len(s) - 1, Len(s), "HexBadUnderscore")>>
    ELSE <<>>

\* unescape_str run to its end: the callbacks of all the iterations of its loop.
unescape_str(s, is_unicode) ==
    LET RECURSIVE go(_, _)
        go(i, cs) ==
            IF i >= Len(s) THEN cs
            ELSE LET st == unescape_str_step(s, is_unicode, i)
                 IN  IF st.brk THEN cs \o st.calls ELSE go(st.i, cs \o st.calls)
    IN  go(0, <<>>)

\* `ch as u32` of the character that str::char_indices yields at offset k of a
\* valid UTF-8 string.
char_as_u32(s, k) ==
    LET n == len_utf8(s[k + 1])
    IN  CASE n = 1 -> s[k + 1]
          [] n = 2 -> (s[k + 1] - 192) * 64 + (s[k + 2] - 128)
          [] n = 3 -> (s[k + 1] - 224) * 4096 + (s[k + 2] - 128) * 64 + (s[k + 3] - 128)
          [] OTHER -> (s[k + 1] - 240) * 262144 + (s[k + 2] - 128) * 4096
                      + (s[k + 3] - 128) * 64 + (s[k + 4] - 128)

\* The fast path of unescape_literal calling back once per byte.
char_indices_calls_Bytes(s) ==
    [k \in 1..Len(s) |-> OkCall(k - 1, k, s[k])]

\* The callbacks of the fast path of unescape_literal: one per character.
char_indices_calls(s) ==
    LET RECURSIVE go(_, _)
        go(k, cs) ==
            IF k >= Len(s) THEN cs
            ELSE LET n == len_utf8(s[k + 1])
                 IN  go(k + n, Append(cs, OkCall(k, k + n, char_as_u32(s, k))))
    IN  go(0, <<>>)

\* The closure of parse_literal_unescape_into writing U+FFFD for every error too.
closure_dst_Mut(cs) ==
    LET RECURSIVE go(_)
        go(r) ==
            IF r = <<>> THEN <<>>
            ELSE (IF Head(r).ok THEN encode_utf8_raw(Head(r).c) ELSE <<239, 191, 189>>)
                 \o go(Tail(r))
    IN  go(cs)

\* Mutant of closure_dst: a character that produced an error is kept as '_'.
closure_dst_KeepErrs(cs) ==
    LET RECURSIVE go(_)
        go(r) ==
            IF r = <<>> THEN <<>>
            ELSE (IF Head(r).ok THEN encode_utf8_raw(Head(r).c) ELSE <<UNDERSCORE>>)
                 \o go(Tail(r))
    IN  go(cs)

\* The closure parse_literal_unescape_into hands to the engine, applied to a
\* sequence of callbacks: what it appends to dst_buf and what it passes to f.
closure_dst(cs) ==
    LET RECURSIVE go(_)
        go(r) ==
            IF r = <<>> THEN <<>>
            ELSE (IF Head(r).ok THEN encode_utf8_raw(Head(r).c) ELSE <<>>) \o go(Tail(r))
    IN  go(cs)

\* The closure of parse_literal_unescape_into passing only the first error to f.
closure_errs_First(cs) ==
    LET es == SelectSeq(cs, LAMBDA c : ~c.ok)
    IN  [k \in 1..(IF Len(es) > 1 THEN 1 ELSE Len(es)) |->
            [lo |-> es[k].lo, hi |-> es[k].hi, e |-> es[k].e]]

closure_errs(cs) ==
    LET es == SelectSeq(cs, LAMBDA c : ~c.ok)
    IN  [k \in 1..Len(es) |-> [lo |-> es[k].lo, hi |-> es[k].hi, e |-> es[k].e]]

\* unescape_hex_str run to its end: the callbacks of the prefix, of the digit
\* count, of all the iterations of the loop and of the final check.
unescape_hex_str(s) ==
    LET st == unescape_hex_str_start(s)
        RECURSIVE go(_, _, _)
        go(i, h, cs) ==
            IF i >= Len(s) THEN cs \o unescape_hex_str_end(s, h)
            ELSE LET r == unescape_hex_str_step(s, i, h)
                 IN  go(r.pos, r.hex, cs \o r.calls)
    IN  IF st.returned THEN st.calls
        ELSE go(st.pos, HexState(TRUE, FALSE, TRUE), st.calls)

\* unescape_literal run to its end: every callback it makes, in order.
unescape_literal(s, m) ==
    IF needs_unescape(s, m)
    THEN IF m = "HexStr" THEN unescape_hex_str(s) ELSE unescape_str(s, m = "UnicodeStr")
    ELSE char_indices_calls(s)

\* Lines 39-45 of try_parse_string_literal: hex strings are decoded when they can be.
hex_decoded(bs, m) ==
    IF m = "HexStr" /\ hex_decode(bs).ok THEN hex_decode(bs).bytes ELSE bs

(***************************************************************************)
(* Sources of the unescape engine: valid UTF-8 made of the pieces of one   *)
(* alphabet, each alphabet scanned in the modes it is meant for.           *)
(***************************************************************************)
Bs == <<BACKSLASH>>

StrModes == {"Str", "UnicodeStr"}

UnescapeProfiles == {
    [alphabet |-> {Bs, Ch(120), Ch(49), Ch(122)},            modes |-> StrModes],
    [alphabet |-> {<<BACKSLASH, 120>>, Ch(101), Ch(56), Bs}, modes |-> StrModes],
    [alphabet |-> {<<BACKSLASH, 117>>, <<48, 48>>, <<101, 56>>, Ch(122)},
                                                             modes |-> StrModes],
    [alphabet |-> {<<BACKSLASH, 117>>, <<100, 56>>, <<48, 48>>, Ch(49)},
                                                             modes |-> StrModes],
    [alphabet |-> {Bs, Ch(110), Ch(DQUOTE), Ch(SQUOTE)},     modes |-> StrModes],
    [alphabet |-> {Bs, Ch(114), Ch(116), Ch(SPACE)},         modes |-> StrModes],
    [alphabet |-> {Bs, Ch(LF), Ch(CR), Ch(SPACE)},           modes |-> StrModes],
    [alphabet |-> {Bs, Ch(LF), Ch(TAB), Ch(97)},             modes |-> StrModes],
    [alphabet |-> {Char2, Char3, Char4, Bs},                 modes |-> Modes],
    [alphabet |-> {Char2, Ch(97), Ch(49), Ch(SPACE)},        modes |-> Modes],
    [alphabet |-> {<<48, 120>>, Ch(49), Ch(UNDERSCORE), Ch(122)}, modes |-> {"HexStr"}],
    [alphabet |-> {<<48, 88>>, <<49, 102>>, Ch(UNDERSCORE), Ch(65)}, modes |-> {"HexStr"}]}

Sources(A) == {Concat(cs) : cs \in UNION {[1..n -> A] : n \in 0..MaxSrcChars}}

(***************************************************************************)
(* The unescape engine as a state machine: one call of unescape_literal or *)
(* of try_parse_string_literal, the scan advancing one loop iteration per  *)
(* step.                                                                   *)
(***************************************************************************)
UnescapeInit ==
    /\ \E pr \in UnescapeProfiles : src \in Sources(pr.alphabet) /\ mode \in pr.modes
    /\ entry \in {"unescape_literal", "try_parse_string_literal"}
    /\ upc = "call"
    /\ ui = 0
    /\ hex = HexState(TRUE, FALSE, TRUE)
    /\ calls = <<>> /\ dst = <<>> /\ errs = <<>> /\ out = <<>>
    /\ CursorIdle /\ SpanIdle /\ SessionIdle /\ CallIdle /\ EnterIdle

\* Where unescape_literal_unchecked starts.
ScanStart == IF mode = "HexStr" THEN "hex" ELSE IF Len(src) = 0 THEN "ret" ELSE "str"

\* The engine hands the callbacks cs to its callback: unescape_literal's caller
\* sees them all; the closure of parse_literal_unescape_into writes the Ok ones
\* to dst_buf and passes the Err ones to f.
Deliver(cs) ==
    /\ calls' = calls \o cs
    /\ IF entry = "try_parse_string_literal"
       THEN dst' = dst \o closure_dst(cs) /\ errs' = errs \o closure_errs(cs)
       ELSE UNCHANGED <<dst, errs>>

\* unescape_literal is called.
UnescapeLiteral ==
    /\ upc = "call" /\ entry = "unescape_literal"
    /\ IF needs_unescape(src, mode)
       THEN upc' = ScanStart /\ UNCHANGED calls
       ELSE upc' = "done" /\ calls' = char_indices_calls(src)
    /\ UNCHANGED <<src, mode, entry, ui, hex, dst, errs, out, cursorVars, spanVars, sessionVars,
                 callVars, enterVars>>

\* try_parse_string_literal is called; without unescaping it returns at once.
TryParseStringLiteral ==
    /\ upc = "call" /\ entry = "try_parse_string_literal"
    /\ IF needs_unescape(src, mode)
       THEN upc' = ScanStart /\ UNCHANGED out
       ELSE upc' = "done" /\ out' = hex_decoded(src, mode)
    /\ UNCHANGED <<src, mode, entry, ui, hex, calls, dst, errs, cursorVars, spanVars, sessionVars,
                 callVars, enterVars>>

\* One iteration of the while loop of unescape_str.
UnescapeStrStep ==
    /\ upc = "str"
    /\ LET st == unescape_str_step(src, mode = "UnicodeStr", ui)
       IN  /\ ui' = st.i
           /\ Deliver(st.calls)
           /\ upc' = IF st.brk \/ st.i >= Len(src) THEN "ret" ELSE "str"
    /\ UNCHANGED <<src, mode, entry, hex, out, cursorVars, spanVars, sessionVars, callVars,
                 enterVars>>

\* unescape_hex_str up to its for loop.
UnescapeHexStart ==
    /\ upc = "hex"
    /\ LET st == unescape_hex_str_start(src)
       IN  /\ ui' = st.pos
           /\ Deliver(st.calls)
           /\ upc' = IF st.returned THEN "ret" ELSE "hexloop"
    /\ UNCHANGED <<src, mode, entry, hex, out, cursorVars, spanVars, sessionVars, callVars,
                 enterVars>>

\* One iteration of the for loop of unescape_hex_str.
UnescapeHexStep ==
    /\ upc = "hexloop" /\ ui < Len(src)
    /\ LET st == unescape_hex_str_step(src, ui, hex)
       IN  /\ ui' = st.pos
           /\ hex' = st.hex
           /\ Deliver(st.calls)
    /\ UNCHANGED <<src, mode, entry, upc, out, cursorVars, spanVars, sessionVars, callVars,
                 enterVars>>

\* The for loop of unescape_hex_str is over: the trailing underscore check.
UnescapeHexEnd ==
    /\ upc = "hexloop" /\ ui >= Len(src)
    /\ Deliver(unescape_hex_str_end(src, hex))
    /\ upc' = "ret"
    /\ UNCHANGED <<src, mode, entry, ui, hex, out, cursorVars, spanVars, sessionVars,
                 callVars, enterVars>>

\* The engine returns: unescape_literal is over; try_parse_string_literal sets
\* the length of dst_buf and decodes hex strings.
UnescapeReturn ==
    /\ upc = "ret"
    /\ upc' = "done"
    /\ out' = IF entry = "try_parse_string_literal" THEN hex_decoded(dst, mode) ELSE out
    /\ UNCHANGED <<src, mode, entry, ui, hex, calls, dst, errs, cursorVars, spanVars, sessionVars,
                 callVars, enterVars>>

UnescapeNext ==
    \/ UnescapeLiteral
    \/ TryParseStringLiteral
    \/ UnescapeStrStep
    \/ UnescapeHexStart
    \/ UnescapeHexStep
    \/ UnescapeHexEnd
    \/ UnescapeReturn

SpecUnescape == UnescapeInit /\ [][UnescapeNext]_vars

(***************************************************************************)
(* The callbacks of one call.                                              *)
(***************************************************************************)
UnescapeDone == upc = "done"

RangesInBounds ==
    \A k \in 1..Len(calls) :
        0 <= calls[k].lo /\ calls[k].lo <= calls[k].hi /\ calls[k].hi <= Len(src)

\* The HexOddDigits callback: made once, over the whole source, right after
\* the HexPrefix callback when the source has a prefix.
IsHexOddDigits(k) ==
    /\ ~calls[k].ok /\ calls[k].e = "HexOddDigits"
    /\ calls[k].lo = 0 /\ calls[k].hi = Len(src)

\* C5 as stated: every range passed by unescape_literal to its callback lies
\* within 0..src.len() and each range starts at or after the end of the
\* previous one.
C5_RangesNeverOverlap ==
    entry = "unescape_literal" =>
        /\ RangesInBounds
        /\ \A k \in 2..Len(calls) : calls[k - 1].hi <= calls[k].lo

\* C5 amended: every range passed by unescape_literal to its callback lies
\* within 0..src.len(), and each range starts at or after the end of the
\* previous one, except the HexOddDigits range, which is the whole source
\* 0..src.len() and overlaps the HexPrefix range 0..2 reported just before it.
C5_RangesOverlapOnlyAtHexOddDigits ==
    entry = "unescape_literal" =>
        /\ RangesInBounds
        /\ \A k \in 2..Len(calls) :
               \/ calls[k - 1].hi <= calls[k].lo
               \/ /\ IsHexOddDigits(k)
                  /\ k = 2 /\ k = Len(calls)
                  /\ calls[1] = ErrCall(0, 2, "HexPrefix")

C5_Witness ==
    /\ UnescapeDone /\ entry = "unescape_literal"
    /\ needs_unescape(src, mode)
    /\ \E k \in 1..Len(calls) : calls[k].ok
    /\ \E k \in 2..Len(calls) : ~calls[k].ok /\ calls[k - 1].hi < calls[k].lo

\* C6: the bytes written into the destination buffer of
\* parse_literal_unescape_into never exceed its capacity src.len(), and
\* try_parse_string_literal returns at most src.len() bytes.
C6_OutputFitsSource ==
    /\ Len(dst) <= Len(src)
    /\ (UnescapeDone /\ entry = "try_parse_string_literal") => Len(out) <= Len(src)

C6_Witness ==
    /\ UnescapeDone /\ entry = "try_parse_string_literal"
    /\ needs_unescape(src, mode)
    /\ Len(src) >= 3
    /\ Len(out) = Len(src) - 1


(***************************************************************************)
(* Spans (crates/interface/src/span.rs).                                   *)
(***************************************************************************)
BytePos == 0..(PosLimit - 1)

wrapping_add(a, b) == (a + b) % PosLimit

Span(lo, hi) == [lo |-> lo, hi |-> hi]

DUMMY == Span(0, 0)

\* Span::new without the swap.
Span_new_Mut(lo, hi) == Span(lo, hi)

Span_new(lo, hi) == IF lo > hi THEN Span(hi, lo) ELSE Span(lo, hi)

Span_with_lo(self, lo) == Span_new(lo, self.hi)

Span_with_hi(self, hi) == Span_new(self.lo, hi)

Span_shrink_to_lo(self) == Span_new(self.lo, self.lo)

Span_shrink_to_hi(self) == Span_new(self.hi, self.hi)

Span_contains(self, other) == self.lo <= other.lo /\ other.hi <= self.hi

\* Span::split_at taking pos itself for the split position.
Span_split_at_Mut(self, p, dbg) ==
    LET len == self.hi - self.lo
        split_pos == p
    IN  IF dbg /\ ~(p <= len)
        THEN [panicked |-> TRUE, res |-> <<>>]
        ELSE [panicked |-> FALSE,
              res |-> <<Span_new(self.lo, split_pos), Span_new(split_pos, self.hi)>>]

\* Span::split_at: debug_assert!(pos <= len) panics in a build with debug
\* assertions (dbg) and is compiled out otherwise, where the u32 addition wraps.
Span_split_at(self, p, dbg) ==
    LET len == self.hi - self.lo
        split_pos == wrapping_add(self.lo, p)
    IN  IF dbg /\ ~(p <= len)
        THEN [panicked |-> TRUE, res |-> <<>>]
        ELSE [panicked |-> FALSE,
              res |-> <<Span_new(self.lo, split_pos), Span_new(split_pos, self.hi)>>]

min(a, b) == IF a <= b THEN a ELSE b

max(a, b) == IF a >= b THEN a ELSE b

\* Span::to joining the start of self with the end of end.
Span_to_Mut(self, end) == Span_new(self.lo, end.hi)

Span_to(self, end) == Span_new(min(self.lo, end.lo), max(self.hi, end.hi))

\* Span::between doing what Span::until does.
Span_between_Mut(self, end) == Span_new(self.lo, end.lo)

Span_between(self, end) == Span_new(self.hi, end.lo)

Span_until(self, end) == Span_new(self.lo, end.lo)

\* Iterator::reduce(Span::to) then unwrap_or_default.
Span_join_many(spans) ==
    LET RECURSIVE reduce(_, _)
        reduce(acc, rest) ==
            IF rest = <<>> THEN acc ELSE reduce(Span_to(acc, Head(rest)), Tail(rest))
    IN  IF spans = <<>> THEN DUMMY ELSE reduce(Head(spans), Tail(spans))

Span_join_first_last(spans) ==
    LET first_span == IF spans = <<>> THEN DUMMY ELSE Head(spans)
    IN  IF Len(spans) >= 2 THEN Span_to(first_span, spans[Len(spans)]) ELSE first_span

(***************************************************************************)
(* Span arithmetic as a state machine: two spans, each operation applied   *)
(* to them and its result kept in sa (split_at: in sa and sb).  sop is the *)
(* last operation: its name, integer arguments, span operands and results. *)
(***************************************************************************)
Op(name, args, spans, res) ==
    [op |-> name, args |-> args, spans |-> spans, res |-> res, panicked |-> FALSE]

SpanInit ==
    /\ \E lo \in BytePos, hi \in BytePos : sa = Span_new(lo, hi)
    /\ \E lo \in BytePos, hi \in BytePos : sb = Span_new(lo, hi)
    /\ sop = [op |-> "none"]
    /\ debug_assertions \in BOOLEAN
    /\ CursorIdle /\ UnescapeIdle /\ SessionIdle /\ CallIdle /\ EnterIdle

Operands == {sa, sb}

SpanStep(name, args, spans, r) ==
    /\ sa' = r
    /\ sop' = Op(name, args, spans, <<r>>)
    /\ UNCHANGED <<sb, debug_assertions, cursorVars, unescapeVars, sessionVars, callVars,
                 enterVars>>

New == \E lo \in BytePos, hi \in BytePos :
    SpanStep("new", <<lo, hi>>, <<>>, Span_new(lo, hi))

WithLo == \E lo \in BytePos : SpanStep("with_lo", <<lo>>, <<sa>>, Span_with_lo(sa, lo))

WithHi == \E hi \in BytePos : SpanStep("with_hi", <<hi>>, <<sa>>, Span_with_hi(sa, hi))

ShrinkToLo == SpanStep("shrink_to_lo", <<>>, <<sa>>, Span_shrink_to_lo(sa))

ShrinkToHi == SpanStep("shrink_to_hi", <<>>, <<sa>>, Span_shrink_to_hi(sa))

SplitAt == \E k \in BytePos :
    LET r == Span_split_at(sa, k, debug_assertions)
    IN  /\ sop' = [op |-> "split_at", args |-> <<k>>, spans |-> <<sa>>, res |-> r.res,
                   panicked |-> r.panicked]
        /\ IF r.panicked THEN UNCHANGED <<sa, sb>> ELSE sa' = r.res[1] /\ sb' = r.res[2]
        /\ UNCHANGED <<debug_assertions, cursorVars, unescapeVars, sessionVars, callVars,
                 enterVars>>

To == \E x \in Operands, y \in Operands : SpanStep("to", <<>>, <<x, y>>, Span_to(x, y))

Between == \E x \in Operands, y \in Operands :
    SpanStep("between", <<>>, <<x, y>>, Span_between(x, y))

Until == \E x \in Operands, y \in Operands :
    SpanStep("until", <<>>, <<x, y>>, Span_until(x, y))

SpanSeqs == UNION {[1..n -> Operands] : n \in 0..MaxJoin}

JoinMany == \E spans \in SpanSeqs : SpanStep("join_many", <<>>, spans, Span_join_many(spans))

JoinFirstLast == \E spans \in SpanSeqs :
    SpanStep("join_first_last", <<>>, spans, Span_join_first_last(spans))

SpanNext ==
    \/ New
    \/ WithLo
    \/ WithHi
    \/ ShrinkToLo
    \/ ShrinkToHi
    \/ SplitAt
    \/ To
    \/ Between
    \/ Until
    \/ JoinMany
    \/ JoinFirstLast

SpecSpan == SpanInit /\ [][SpanNext]_vars

Returned(name) == sop.op = name /\ ~sop.panicked

AllSpans == {Span_new(lo, hi) : lo \in BytePos, hi \in BytePos}

\* C7: every span produced by Span::new or by a span operation has lo <= hi,
\* and Span::new swaps its arguments when lo > hi.
C7_SpansAreOrdered ==
    /\ sa.lo <= sa.hi /\ sb.lo <= sb.hi
    /\ sop.op # "none" => \A k \in 1..Len(sop.res) : sop.res[k].lo <= sop.res[k].hi
    /\ Returned("new") =>
           sop.res[1] = IF sop.args[1] > sop.args[2]
                        THEN Span(sop.args[2], sop.args[1])
                        ELSE Span(sop.args[1], sop.args[2])

C7_Witness ==
    /\ Returned("split_at")
    /\ sop.args[1] > sop.spans[1].hi - sop.spans[1].lo
    /\ sop.res[2] = Span(sop.spans[1].hi, sop.spans[1].lo + sop.args[1])

Concatenate(s, k, r) ==
    /\ r[1].lo = s.lo
    /\ r[2].hi = s.hi
    /\ r[1].hi = s.lo + k
    /\ r[2].lo = s.lo + k

C9_ToIsSmallestEnclosing ==
    Returned("to") =>
        LET a == sop.spans[1]
            b == sop.spans[2]
            r == sop.res[1]
        IN  /\ r = Span_to(b, a)
            /\ (a = b => r = a)
            /\ Span_contains(r, a) /\ Span_contains(r, b)
            /\ \A c \in AllSpans :
                   (Span_contains(c, a) /\ Span_contains(c, b)) => Span_contains(c, r)

C9_Witness ==
    /\ Returned("to")
    /\ sop.spans[2].hi < sop.spans[1].lo
    /\ sop.res[1] = Span(sop.spans[2].lo, sop.spans[1].hi)

\* C10 as stated: a.between(b) is the span with lo = a.hi and hi = b.lo, and
\* a.until(b) is the span with lo = a.lo and hi = b.lo.
C10_BetweenUntilEndpoints ==
    /\ Returned("between") => sop.res[1] = Span(sop.spans[1].hi, sop.spans[2].lo)
    /\ Returned("until") => sop.res[1] = Span(sop.spans[1].lo, sop.spans[2].lo)

\* C10 amended: a.between(b) is the span of the two positions a.hi and b.lo
\* in increasing order, (a.hi, b.lo) only when a.hi <= b.lo; a.until(b) is the
\* span of a.lo and b.lo in increasing order, (a.lo, b.lo) only when a.lo <= b.lo.
C10_BetweenUntilEndpointsOrdered ==
    /\ Returned("between") =>
           sop.res[1] = Span(min(sop.spans[1].hi, sop.spans[2].lo),
                             max(sop.spans[1].hi, sop.spans[2].lo))
    /\ Returned("until") =>
           sop.res[1] = Span(min(sop.spans[1].lo, sop.spans[2].lo),
                             max(sop.spans[1].lo, sop.spans[2].lo))

C10_Witness ==
    /\ Returned("between")
    /\ sop.spans[1].hi > sop.spans[2].lo
    /\ sop.res[1] = Span(sop.spans[2].lo, sop.spans[1].hi)


(***************************************************************************)
(* Helpers of the token properties: the tokens returned so far by index,   *)
(* with the offset at which each one starts.                               *)
(***************************************************************************)
Called == tokens # <<>>

LastTok == Last(tokens)

\* The offset at which the last token returned starts.
LastStart == pos - LastTok.len

\* The offset at which the i-th token returned starts.
StartOf(i) == SumLen(SubSeq(tokens, 1, i - 1))

\* The last three tokens returned.
Recent == {i \in 1..Len(tokens) : i + 2 >= Len(tokens)}

\* The byte at offset k, when there is one.
HasByte(k, set) == k < Len(bytes) /\ bytes[k + 1] \in set

\* The integer part of the number that starts at offset s: a base prefix and
\* its digit run, or a decimal digit run; where it ends, its base and whether
\* its run holds a digit.
IntPart(s) ==
    IF bytes[s + 1] = 48 /\ HasByte(s + 1, {98, 111, 120})
    THEN LET f == bytes[s + 2]
             d == eat_digits(bytes, s + 2,
                             IF f = 120 THEN is_ascii_hexdigit ELSE is_ascii_digit)
         IN  [end |-> d.pos, has_digits |-> d.has_digits,
              base |-> CASE f = 98 -> "Binary" [] f = 111 -> "Octal"
                         [] OTHER -> "Hexadecimal"]
    ELSE [end |-> eat_digits(bytes, s + 1, is_ascii_digit).pos, has_digits |-> TRUE,
          base |-> "Decimal"]

\* The i-th token is a number whose integer part is followed by a '.'.
IntegerThenDot(i) ==
    /\ ~IsEof(tokens[i])
    /\ bytes[StartOf(i) + 1] \in Digit
    /\ IntPart(StartOf(i)).has_digits
    /\ HasByte(IntPart(StartOf(i)).end, {DOT})

\* C11: an integer part followed by '.' and an identifier-start byte other
\* than '_' is an Int token of the digits, followed by Dot and then Ident;
\* followed by '.' and any other byte, '_' or the end of input, it is a
\* Rational of the current base that includes the '.'.
C11_DotAfterIntegerPart ==
    \A i \in Recent :
        IntegerThenDot(i) =>
            LET s == StartOf(i)
                ip == IntPart(s)
            IN  IF HasByte(ip.end + 1, is_id_start_byte \ {UNDERSCORE})
                THEN /\ tokens[i] = RawToken(IntKind(ip.base, FALSE), ip.end - s)
                     /\ (i + 1 <= Len(tokens) => tokens[i + 1] = RawToken(Tok("Dot"), 1))
                     /\ (i + 2 <= Len(tokens) => tokens[i + 2].kind = Tok("Ident"))
                ELSE /\ tokens[i].kind.kind = "Literal"
                     /\ tokens[i].kind.lit = "Rational"
                     /\ tokens[i].kind.base = ip.base
                     /\ tokens[i].len >= ip.end + 1 - s

\* `0b1.x` lexed as a binary Int, Dot, Ident.
C11_Witness ==
    /\ Len(tokens) = 3
    /\ tokens[1] = RawToken(IntKind("Binary", FALSE), 3)
    /\ tokens[2] = RawToken(Tok("Dot"), 1)
    /\ tokens[3] = RawToken(Tok("Ident"), 1)


\* The last token starts with the base prefix 0b, 0o or 0x.
LastIsPrefixed ==
    /\ Called /\ ~IsEof(LastTok)
    /\ bytes[LastStart + 1] = 48
    /\ HasByte(LastStart + 1, {98, 111, 120})

PrefixBase(f) == CASE f = 98 -> "Binary" [] f = 111 -> "Octal" [] OTHER -> "Hexadecimal"

PrefixDigits(f) == IF f = 120 THEN Digit \cup HexLetter ELSE Digit

\* Where the run of digits and underscores after the prefix at s ends.
DigitRunEnd(s) ==
    eat_while(bytes, s + 2, PrefixDigits(bytes[s + 2]) \cup {UNDERSCORE})

DigitRunHasDigit(s) ==
    \E k \in (s + 2)..(DigitRunEnd(s) - 1) : bytes[k + 1] \in PrefixDigits(bytes[s + 2])

\* C12: after the prefix 0b, 0o or 0x, a digit run without a digit gives
\* Int{base, empty_int = true} over the prefix and the underscores and nothing
\* more; a run with a digit gives a literal of that base that includes the run
\* and is not an empty Int.
C12_EmptyIntAfterPrefix ==
    LastIsPrefixed =>
        LET s == LastStart
            base == PrefixBase(bytes[s + 2])
        IN  IF DigitRunHasDigit(s)
            THEN /\ LastTok.kind.kind = "Literal"
                 /\ LastTok.kind.base = base
                 /\ LastTok.kind.lit = "Int" => ~LastTok.kind.empty_int
                 /\ LastTok.len >= DigitRunEnd(s) - s
            ELSE /\ LastTok = RawToken(IntKind(base, TRUE), DigitRunEnd(s) - s)
                 /\ pos = DigitRunEnd(s)

\* `0x_` followed by a byte that is no hex digit.
C12_Witness ==
    /\ LastIsPrefixed
    /\ LastTok = RawToken(IntKind("Hexadecimal", TRUE), 3)
    /\ pos < Len(bytes)


DecimalRun == Digit \cup {UNDERSCORE}

\* Where the integer and fractional parts of the number token that starts at
\* offset s end, or -1 when no exponent can follow them: the token is no
\* number, is a base prefix without digits, or ends before a '.'.
NumberBodyEnd(s) ==
    CASE bytes[s + 1] \in Digit ->
            LET ip == IntPart(s)
            IN  CASE ~ip.has_digits -> -1
                  [] ip.has_digits /\ ~HasByte(ip.end, {DOT}) -> ip.end
                  [] ip.has_digits /\ HasByte(ip.end, {DOT})
                       /\ HasByte(ip.end + 1, is_id_start_byte \ {UNDERSCORE}) -> -1
                  [] OTHER -> eat_while(bytes, ip.end + 1, DecimalRun)
      [] bytes[s + 1] = DOT /\ HasByte(s + 1, Digit) -> eat_while(bytes, s + 1, DecimalRun)
      [] OTHER -> -1

\* The i-th token is a number with an 'e' or 'E' after its integer or
\* fractional part.
HasExponent(i) ==
    /\ ~IsEof(tokens[i])
    /\ NumberBodyEnd(StartOf(i)) >= 0
    /\ HasByte(NumberBodyEnd(StartOf(i)), {101, 69})

\* C13: the 'e' or 'E' after the integer or fractional part is consumed with
\* an optional single '-' and the decimal digit run after it; the token is a
\* Rational whose empty_exponent is true iff the run holds no digit; a '+' is
\* not consumed: the token ends after the 'e' and the next token is Plus.
C13_ExponentOptionalMinus ==
    \A i \in Recent :
        HasExponent(i) =>
            LET s == StartOf(i)
                e == NumberBodyEnd(s)
                base == IF bytes[s + 1] = DOT THEN "Decimal" ELSE IntPart(s).base
                d == IF HasByte(e + 1, {MINUS}) THEN e + 2 ELSE e + 1
                r == eat_while(bytes, d, DecimalRun)
                has == \E k \in d..(r - 1) : bytes[k + 1] \in Digit
            IN  /\ tokens[i] = RawToken(RationalKind(base, ~has), r - s)
                /\ HasByte(e + 1, {PLUS}) =>
                       /\ tokens[i] = RawToken(RationalKind(base, TRUE), e + 1 - s)
                       /\ (i + 1 <= Len(tokens) => tokens[i + 1] = RawToken(Tok("Plus"), 1))

\* `0E+0` lexed as an empty-exponent Rational of 2 bytes, Plus and an Int.
C13_Witness ==
    /\ Len(tokens) = 3
    /\ tokens[1] = RawToken(RationalKind("Decimal", TRUE), 2)
    /\ tokens[2] = RawToken(Tok("Plus"), 1)
    /\ tokens[3] = RawToken(IntKind("Decimal", FALSE), 1)


\* The last token starts with the two bytes c1 c2.
LastStartsWith(c1, c2) ==
    /\ Called /\ ~IsEof(LastTok)
    /\ bytes[LastStart + 1] = c1
    /\ HasByte(LastStart + 1, {c2})

\* The offset of the first LF or CR at or after p, or the end of the input.
FirstLineBreak(p) ==
    CHOOSE k \in p..Len(bytes) :
        /\ k = Len(bytes) \/ bytes[k + 1] \in {LF, CR}
        /\ \A j \in p..(k - 1) : bytes[j + 1] \notin {LF, CR}

\* C14: a token starting with `//` is a LineComment that ends before the
\* first LF or CR after the two slashes, or at the end of input; is_doc is
\* true iff the byte after `//` is '/' and the byte after that is not '/'.
C14_LineCommentExtent ==
    LastStartsWith(SLASH, SLASH) =>
        LET s == LastStart
            is_doc == HasByte(s + 2, {SLASH}) /\ ~HasByte(s + 3, {SLASH})
        IN  LastTok = RawToken(LineCommentKind(is_doc), FirstLineBreak(s + 2) - s)

\* `///` ended by a line break: a doc comment of 3 bytes.
C14_Witness ==
    /\ LastStartsWith(SLASH, SLASH)
    /\ LastTok = RawToken(LineCommentKind(TRUE), 3)
    /\ pos < Len(bytes)

\* The offset just after the first `*/` that starts at or after p, or -1.
FirstTerminatorEnd(p) ==
    LET at == {k \in p..(Len(bytes) - 2) : bytes[k + 1] = STAR /\ bytes[k + 2] = SLASH}
    IN  IF at = {} THEN -1 ELSE (CHOOSE k \in at : \A j \in at : k <= j) + 2

\* C15: a token starting with `/*` is a BlockComment that ends just after the
\* first `*/` found at or after the byte following the opener (terminated),
\* or at the end of input when there is none (unterminated); is_doc is true
\* iff the byte after `/*` is '*' and the one after that is neither '*' nor '/'.
C15_BlockCommentExtent ==
    LastStartsWith(SLASH, STAR) =>
        LET s == LastStart
            t == FirstTerminatorEnd(s + 2)
            is_doc == HasByte(s + 2, {STAR}) /\ ~HasByte(s + 3, {STAR, SLASH})
        IN  LastTok = RawToken(BlockCommentKind(is_doc, t >= 0),
                               (IF t >= 0 THEN t ELSE Len(bytes)) - s)

\* `/*/` followed by one more byte that does not close it: unterminated.
C15_Witness ==
    /\ LastStartsWith(SLASH, STAR)
    /\ HasByte(LastStart + 2, {SLASH})
    /\ LastTok = RawToken(BlockCommentKind(FALSE, FALSE), 4)


\* The offset of the first byte at or after p that is not in set, or the end
\* of the input.
FirstNotIn(p, set) ==
    CHOOSE k \in p..Len(bytes) :
        /\ k = Len(bytes) \/ bytes[k + 1] \notin set
        /\ \A j \in p..(k - 1) : bytes[j + 1] \in set

\* In a string whose body starts at offset p and whose quote is q, the byte at
\* offset k is skipped as an escaped byte: it is a backslash or q and follows
\* a backslash that is not skipped itself.
Escaped(p, q, k) ==
    LET RECURSIVE esc(_)
        esc(j) == /\ j > p
                  /\ bytes[j] = BACKSLASH
                  /\ bytes[j + 1] \in {BACKSLASH, q}
                  /\ ~esc(j - 1)
    IN  esc(k)

\* The offset just after the first q at or after p that is not skipped as an
\* escaped byte, or -1 when there is none.
ClosingQuoteEnd(p, q) ==
    LET at == {k \in p..(Len(bytes) - 1) : bytes[k + 1] = q /\ ~Escaped(p, q, k)}
    IN  IF at = {} THEN -1 ELSE (CHOOSE k \in at : \A j \in at : k <= j) + 1

\* The string literal token that starts at s and whose opening quote is at
\* offset o.
StringToken(s, o, str_kind) ==
    LET c == ClosingQuoteEnd(o + 1, bytes[o + 1])
    IN  RawToken(StrLitKind(str_kind, c >= 0), (IF c >= 0 THEN c ELSE Len(bytes)) - s)

\* The last token starts with an identifier-start byte.
LastIsIdentRun == Called /\ ~IsEof(LastTok) /\ bytes[LastStart + 1] \in is_id_start_byte

\* C16: a run of identifier bytes is a string literal of kind Hex (Unicode)
\* iff the run is exactly `hex` (`unicode`) and the byte after it is ' or ";
\* the quote is then consumed and the literal is closed by the same quote
\* only.  In every other case the run is one Ident token and no quote is
\* consumed.
C16_PrefixedLiteral ==
    LastIsIdentRun =>
        LET s == LastStart
            r == FirstNotIn(s + 1, is_id_continue_byte)
            run == SubSeq(bytes, s + 1, r)
        IN  IF run \in {HexWord, UnicodeWord} /\ HasByte(r, {SQUOTE, DQUOTE})
            THEN LastTok = StringToken(s, r, IF run = HexWord THEN "Hex" ELSE "Unicode")
            ELSE LastTok = RawToken(Tok("Ident"), r - s)

\* `hex'"'`: a terminated Hex literal that holds the other quote.
C16_Witness ==
    /\ LastIsIdentRun
    /\ LastTok = RawToken(StrLitKind("Hex", TRUE), 6)
    /\ bytes[LastStart + 4] = SQUOTE /\ bytes[LastStart + 5] = DQUOTE

\* The last token starts with a quote byte.
LastIsQuoted == Called /\ ~IsEof(LastTok) /\ bytes[LastStart + 1] \in {SQUOTE, DQUOTE}

\* C17: a string literal opened by the quote q ends just after the first q
\* that is not skipped as an escaped byte (terminated); a backslash followed by
\* a backslash or by q skips that byte; without a closing q the token extends
\* to the end of input (unterminated).  Nothing else ends the literal.
C17_StringExtent ==
    LastIsQuoted => LastTok = StringToken(LastStart, LastStart, "Str")

\* A terminated string that holds an escaped quote, as in "\"".
C17_Witness ==
    /\ LastIsQuoted
    /\ LastTok.kind = StrLitKind("Str", TRUE)
    /\ \E k \in (LastStart + 1)..(pos - 2) :
           bytes[k + 1] = bytes[LastStart + 1] /\ bytes[k] = BACKSLASH


\* The ASCII bytes that start no other token.
OtherAscii ==
    (0..127) \ ({SLASH, SQUOTE, DQUOTE} \cup is_whitespace_byte \cup is_id_start_byte
                \cup Digit \cup Punctuators)

\* C18: a token that starts with a non-ASCII byte is one Unknown token as
\* long as the UTF-8 character that starts there (the leading byte and the
\* continuation bytes after it), so the next token starts on a character
\* boundary; an ASCII byte that starts no other token is an Unknown token of
\* length 1.
C18_UnknownCoversCharacter ==
    (Called /\ ~IsEof(LastTok)) =>
        LET s == LastStart
            c == bytes[s + 1]
        IN  /\ c >= 128 =>
                  /\ LastTok = RawToken(Tok("Unknown"), FirstNotIn(s + 1, 128..191) - s)
                  /\ LastTok.len \in {2, 3, 4}
                  /\ IsCharBoundary(bytes, pos)
            /\ c \in OtherAscii => LastTok = RawToken(Tok("Unknown"), 1)

\* A 4-byte character lexed as one Unknown token, with input left after it.
C18_Witness ==
    /\ Called
    /\ LastTok = RawToken(Tok("Unknown"), 4)
    /\ bytes[LastStart + 1] >= 240
    /\ pos < Len(bytes)


\* The fast path applies: Str or UnicodeStr, no backslash, LF or CR and, for
\* Str, ASCII only.
FastPath ==
    /\ mode \in {"Str", "UnicodeStr"}
    /\ \A k \in 1..Len(src) : src[k] \notin {BACKSLASH, LF, CR}
    /\ mode = "Str" => \A k \in 1..Len(src) : src[k] < 128

\* The offsets at which the code points of src start, and the end of src.
Boundaries == {k \in 0..Len(src) : k = Len(src) \/ src[k + 1] \notin 128..191}

\* The value of the code point encoded in src[lo + 1 .. hi].
CodePoint(lo, hi) ==
    LET n == hi - lo
        RECURSIVE acc(_, _)
        acc(j, v) == IF j > hi THEN v ELSE acc(j + 1, (v * 64) + (src[j] % 64))
    IN  IF n = 1 THEN src[hi]
        ELSE acc(lo + 2, src[lo + 1] % (CASE n = 2 -> 32 [] n = 3 -> 16 [] OTHER -> 8))

\* One Ok callback per code point of src, in order.
CodePointCalls ==
    LET RECURSIVE from(_)
        from(lo) ==
            IF lo >= Len(src) THEN <<>>
            ELSE LET hi == CHOOSE h \in Boundaries :
                               h > lo /\ \A g \in Boundaries : g > lo => h <= g
                 IN  <<OkCall(lo, hi, CodePoint(lo, hi))>> \o from(hi)
    IN  from(0)

\* C19: on the fast path unescape_literal calls back exactly once per code
\* point, in order, with its range and Ok(its value) and no error, the same
\* callbacks as unescape_str makes on that source, and
\* try_parse_string_literal returns the source bytes unchanged.
C19_FastPathMatchesSlowPath ==
    (UnescapeDone /\ FastPath) =>
        /\ entry = "unescape_literal" =>
               /\ calls = CodePointCalls
               /\ calls = unescape_str(src, mode = "UnicodeStr")
        /\ entry = "try_parse_string_literal" => out = src /\ errs = <<>>

\* A unicode literal with a multi-byte character and an ASCII one.
C19_Witness ==
    /\ UnescapeDone /\ FastPath
    /\ entry = "unescape_literal" /\ mode = "UnicodeStr"
    /\ \E k \in 1..Len(calls) : calls[k].hi - calls[k].lo > 1
    /\ \E k \in 1..Len(calls) : calls[k].hi - calls[k].lo = 1


\* The scan of unescape_str is at a backslash followed by x or u.
AtHexEscape ==
    /\ upc = "str"
    /\ src[ui + 1] = BACKSLASH
    /\ ui + 1 < Len(src) /\ src[ui + 2] \in {120, 117}

HexDigitValue(c) ==
    CASE c \in 48..57 -> c - 48
      [] c \in 97..102 -> c - 87
      [] c \in 65..70 -> c - 55

IsHexDigitAt(k) == k < Len(src) /\ src[k + 1] \in (48..57) \cup (97..102) \cup (65..70)

\* The callback owed for the \x or \u escape whose backslash is at offset i:
\* Ok of the value of its 2 or 4 hex digits, or the error of the first
\* character that is missing or is no hex digit, over the range that ends
\* after the last character read.
EscapeCallback(i) ==
    LET is_x == src[i + 2] = 120
        n == IF is_x THEN 2 ELSE 4
        good == Cardinality({j \in 1..n : \A t \in 1..j : IsHexDigitAt(i + 1 + t)})
        stop == i + 2 + good
        RECURSIVE value(_)
        value(j) == IF j = 0 THEN 0 ELSE (16 * value(j - 1)) + HexDigitValue(src[i + 2 + j])
    IN  CASE good = n -> OkCall(i, i + 2 + n, value(n))
          [] good < n /\ stop >= Len(src) ->
                ErrCall(i, Len(src),
                        IF is_x THEN "HexEscapeTooShort" ELSE "UnicodeEscapeTooShort")
          [] OTHER ->
                ErrCall(i, stop + len_utf8(src[stop + 1]),
                        IF is_x THEN "InvalidHexEscape" ELSE "InvalidUnicodeEscape")

\* C20: in Str and UnicodeStr modes, \x with two hex digits is Ok(16*d1 + d2)
\* over 4 bytes and \u with four hex digits is Ok of that value over 6 bytes,
\* surrogates included; a source that ends before the digits is
\* HexEscapeTooShort (UnicodeEscapeTooShort) and a character that is no hex
\* digit is InvalidHexEscape (InvalidUnicodeEscape); the range starts at the
\* backslash and ends after the last character read, and the scan resumes
\* right after it.
C20_HexAndUnicodeEscapes ==
    [][AtHexEscape =>
          /\ calls' = Append(calls, EscapeCallback(ui))
          /\ ui' = EscapeCallback(ui).hi]_vars

\* `\xz1`: InvalidHexEscape over 0..3, then the character 1.
C20_Witness ==
    /\ UnescapeDone
    /\ calls = <<ErrCall(0, 3, "InvalidHexEscape"), OkCall(3, 4, 49)>>


\* The end of the character of src that starts at offset k.
CharEnd(k) == CHOOSE h \in Boundaries : h > k /\ \A g \in Boundaries : g > k => h <= g

\* The byte at offset k of src is one of set.
SrcByte(k, set) == k < Len(src) /\ src[k + 1] \in set

\* A backslash at offset k starts a line continuation.
ContinuationAt(k) ==
    /\ SrcByte(k, {BACKSLASH})
    /\ \/ SrcByte(k + 1, {LF})
       \/ SrcByte(k + 1, {CR}) /\ SrcByte(k + 2, {LF})

\* The scan of unescape_str is at a backslash followed by a character that
\* is no escape and starts no line continuation.
AtInvalidEscape ==
    /\ upc = "str"
    /\ SrcByte(ui, {BACKSLASH})
    /\ ui + 1 < Len(src)
    /\ src[ui + 2] \notin {SQUOTE, DQUOTE, BACKSLASH, 110, 114, 116, 120, 117}
    /\ ~ContinuationAt(ui)

\* The scan of unescape_str ends at the end of the source or at a lone
\* trailing backslash.
ScanEndsAtEnd ==
    (upc = "str" /\ upc' # "str") =>
        \/ ui' = Len(src)
        \/ /\ ui' = Len(src) - 1 /\ src[Len(src)] = BACKSLASH
           /\ Last(calls') = ErrCall(ui', ui' + 1, "LoneSlash")

\* C21 as stated: a backslash followed by a character that is no recognised
\* escape reports one InvalidEscape, consumes exactly two bytes, and the scan
\* resumes with the byte after them; only a lone trailing backslash stops the
\* scan before the end of the source.
C21_InvalidEscapeTwoBytes ==
    [][/\ AtInvalidEscape =>
              /\ calls' = Append(calls, ErrCall(ui, ui + 2, "InvalidEscape"))
              /\ ui' = ui + 2
       /\ ScanEndsAtEnd]_vars

\* C21 amended: the InvalidEscape range is the backslash and the whole
\* character after it, two bytes when that character is ASCII and 1 + its
\* UTF-8 length otherwise, and the scan resumes after that character; only a
\* lone trailing backslash stops the scan before the end of the source.
C21_InvalidEscapeWholeCharacter ==
    [][/\ AtInvalidEscape =>
              /\ calls' = Append(calls, ErrCall(ui, CharEnd(ui + 1), "InvalidEscape"))
              /\ ui' = CharEnd(ui + 1)
              /\ src[ui + 2] < 128 => ui' = ui + 2
       /\ ScanEndsAtEnd]_vars

\* A backslash before a 2-byte character: InvalidEscape over 3 bytes, and the
\* scan goes on after it.
C21_Witness ==
    /\ UnescapeDone
    /\ Len(calls) >= 2
    /\ calls[1] = ErrCall(0, 3, "InvalidEscape")
    /\ calls[2].lo = 3


\* The elements of a finite set of numbers in increasing order.
Ascending(S) ==
    LET RECURSIVE asc(_)
        asc(T) == IF T = {} THEN <<>>
                  ELSE LET x == CHOOSE y \in T : \A z \in T : y <= z
                       IN  <<x>> \o asc(T \ {x})
    IN  asc(S)

\* The offset of the first byte of src at or after p that is not in set, or
\* the end of src.
SrcFirstNotIn(p, set) ==
    CHOOSE k \in p..Len(src) :
        /\ k = Len(src) \/ src[k + 1] \notin set
        /\ \A j \in p..(k - 1) : src[j + 1] \in set

\* The callbacks owed for the skip of src[b .. e - 1], made of spaces, tabs,
\* LFs and CRs: one per LF, CR LF pair or bare CR, in order.
SkipCallbacks(b, e) ==
    LET pairedLF(k) == src[k + 1] = LF /\ k > b /\ src[k] = CR
        at == Ascending({k \in b..(e - 1) : src[k + 1] \in {LF, CR} /\ ~pairedLF(k)})
        call(k) == CASE src[k + 1] = LF -> ErrCall(k, k + 1, "CannotSkipMultipleLines")
                     [] src[k + 1] = CR /\ SrcByte(k + 1, {LF}) ->
                            ErrCall(k, k + 2, "CannotSkipMultipleLines")
                     [] OTHER -> ErrCall(k, k + 1, "BareCarriageReturn")
    IN  [j \in 1..Len(at) |-> call(at[j])]

\* C22: a backslash followed by LF or CR LF makes no callback for itself;
\* after it spaces and tabs are skipped silently, every LF or CR LF met
\* reports CannotSkipMultipleLines at that newline, a bare CR reports
\* BareCarriageReturn, the skip goes on, and the first byte that is neither
\* space, tab, LF nor CR ends the skip and is where the scan resumes.
C22_LineContinuationSkip ==
    [][(upc = "str" /\ ContinuationAt(ui)) =>
          LET b == IF SrcByte(ui + 1, {LF}) THEN ui + 2 ELSE ui + 3
              e == SrcFirstNotIn(b, {SPACE, TAB, LF, CR})
          IN  /\ calls' = calls \o SkipCallbacks(b, e)
              /\ ui' = e
              /\ upc' = IF e < Len(src) THEN "str" ELSE "ret"]_vars

\* A continuation, a second LF reported, then a character scanned normally.
C22_Witness ==
    /\ UnescapeDone
    /\ ContinuationAt(0)
    /\ calls = <<ErrCall(2, 3, "CannotSkipMultipleLines"), OkCall(3, 4, 97)>>


\* The callbacks made by the step being taken.
NewCalls == SubSeq(calls', Len(calls) + 1, Len(calls'))

\* The callbacks of the step being taken whose range covers offset k.
Covering(k) == {j \in 1..Len(NewCalls) : NewCalls[j].lo <= k /\ k < NewCalls[j].hi}

\* Offset k is reported by this step by exactly one callback, the error e over
\* that one byte.
ReportedAlone(k, e) ==
    /\ Cardinality(Covering(k)) = 1
    /\ \A j \in Covering(k) : NewCalls[j] = ErrCall(k, k + 1, e)

\* A step of the scan of a Str / UnicodeStr literal other than a line
\* continuation.
PlainStep == upc = "str" /\ ~ContinuationAt(ui)

\* C23 as stated: every LF consumed outside a line continuation reports one
\* StrNewline on that byte, every CR not followed by LF one
\* BareCarriageReturn, and the CR of a CR LF pair nothing.
C23_EveryNewlineReported ==
    [][PlainStep =>
          \A k \in ui..(ui' - 1) :
              /\ src[k + 1] = LF => ReportedAlone(k, "StrNewline")
              /\ (src[k + 1] = CR /\ ~SrcByte(k + 1, {LF})) =>
                     ReportedAlone(k, "BareCarriageReturn")
              /\ (src[k + 1] = CR /\ SrcByte(k + 1, {LF})) => Covering(k) = {}]_vars

\* C23: outside a line continuation, an LF or CR that is not taken as a
\* character of an escape sequence (so one at which the scan stands) reports:
\* an LF one StrNewline on that byte, a CR not followed by LF one
\* BareCarriageReturn, a CR before LF nothing, the LF then reporting StrNewline;
\* none of them adds to the output. Any other LF or CR consumed outside a
\* continuation belongs to the escape that starts at the scan position.
C23_NewlineAtScanPosition ==
    [][PlainStep =>
          /\ SrcByte(ui, {LF}) =>
                 /\ calls' = Append(calls, ErrCall(ui, ui + 1, "StrNewline"))
                 /\ ui' = ui + 1 /\ dst' = dst
          /\ (SrcByte(ui, {CR}) /\ ~SrcByte(ui + 1, {LF})) =>
                 /\ calls' = Append(calls, ErrCall(ui, ui + 1, "BareCarriageReturn"))
                 /\ ui' = ui + 1 /\ dst' = dst
          /\ (SrcByte(ui, {CR}) /\ SrcByte(ui + 1, {LF})) =>
                 /\ calls' = calls /\ ui' = ui + 1 /\ upc' = "str" /\ dst' = dst
          /\ \A k \in (ui + 1)..(ui' - 1) :
                 src[k + 1] \in {LF, CR} =>
                     /\ src[ui + 1] = BACKSLASH
                     /\ Covering(k) = {1}
                     /\ ~NewCalls[1].ok /\ NewCalls[1].lo = ui]_vars

\* A CR LF pair reported once on the LF, then a bare CR, nothing decoded.
C23_Witness ==
    /\ UnescapeDone
    /\ entry = "try_parse_string_literal"
    /\ src = <<CR, LF, CR>>
    /\ calls = <<ErrCall(1, 2, "StrNewline"), ErrCall(2, 3, "BareCarriageReturn")>>
    /\ out = <<>>


\* A code point of src that is not ASCII starts at offset k.
NonAsciiAt(k) == k \in Boundaries /\ k < Len(src) /\ src[k + 1] >= 128

\* What the claim expects for the non-ASCII code point at offset k.
NonAsciiCallback(k) ==
    IF mode = "Str" THEN ErrCall(k, CharEnd(k), "StrNonAsciiChar")
    ELSE OkCall(k, CharEnd(k), CodePoint(k, CharEnd(k)))

\* The step being taken makes exactly one callback that covers offset k, the
\* one expected for the non-ASCII code point there.
NonAsciiReported(k) ==
    /\ Cardinality(Covering(k)) = 1
    /\ \A j \in Covering(k) : NewCalls[j] = NonAsciiCallback(k)

\* The fast path of a unicode literal is about to be taken.
UnicodeFastCall == upc = "call" /\ FastPath /\ mode = "UnicodeStr"

\* C24 as stated: every non-ASCII code point of the source is reported once
\* over its whole encoding, as StrNonAsciiChar in Str mode and as Ok(its
\* value) in UnicodeStr mode.
C24_EveryNonAsciiReported ==
    [][upc = "str" => \A k \in ui..(ui' - 1) : NonAsciiAt(k) => NonAsciiReported(k)]_vars

\* C24: a non-ASCII code point that is not taken as a character of an escape
\* sequence is reported once over its whole UTF-8 encoding: in Str mode as
\* StrNonAsciiChar, adding nothing to the output; in UnicodeStr mode as Ok(its
\* scalar value), adding its own bytes to the output, on the fast path too.
\* Any other non-ASCII code point consumed belongs to the escape at the scan
\* position and lies in the range of that escape's error.
C24_NonAsciiAtScanPosition ==
    [][/\ (upc = "str" /\ NonAsciiAt(ui)) =>
              /\ calls' = Append(calls, NonAsciiCallback(ui))
              /\ ui' = CharEnd(ui)
              /\ entry = "try_parse_string_literal" =>
                     dst' = IF mode = "Str" THEN dst
                            ELSE dst \o SubSeq(src, ui + 1, CharEnd(ui))
       /\ upc = "str" =>
              \A k \in (ui + 1)..(ui' - 1) :
                  NonAsciiAt(k) =>
                      /\ src[ui + 1] = BACKSLASH
                      /\ Covering(k) = {1}
                      /\ ~NewCalls[1].ok /\ NewCalls[1].lo = ui
       /\ UnicodeFastCall =>
              /\ entry = "unescape_literal" =>
                     \A k \in 0..(Len(src) - 1) : NonAsciiAt(k) => NonAsciiReported(k)
              /\ entry = "try_parse_string_literal" => out' = src]_vars

\* A unicode literal that needs unescaping returns its 2-byte character.
C24_Witness ==
    /\ UnescapeDone
    /\ entry = "try_parse_string_literal" /\ mode = "UnicodeStr"
    /\ src = Char2 \o Bs \o Bs
    /\ calls = <<OkCall(0, 2, 232), OkCall(2, 4, BACKSLASH)>>
    /\ out = Char2 \o Bs


\* src starts with 0x or 0X.
HasHexPrefix == Len(src) >= 2 /\ src[1] = 48 /\ src[2] \in {120, 88}

\* The offset of the body of a hex literal, after its optional prefix.
HexBody == IF HasHexPrefix THEN 2 ELSE 0

\* The offsets of the hex digits of the body of src.
HexDigitOffsets == {k \in HexBody..(Len(src) - 1) : src[k + 1] \in is_ascii_hexdigit}

\* The callback for the optional prefix of a hex literal.
HexPrefixCalls == IF HasHexPrefix THEN <<ErrCall(0, 2, "HexPrefix")>> ELSE <<>>

\* C25: in HexStr mode, when the number of hex digits after the optional
\* 0x / 0X (reported as HexPrefix over 0..2) is odd, the only other callback
\* is HexOddDigits over 0..src.len(): no Ok value, no further error, and the
\* decoded output is empty.
C25_OddDigitsStop ==
    (UnescapeDone /\ mode = "HexStr" /\ Cardinality(HexDigitOffsets) % 2 = 1) =>
        /\ calls = Append(HexPrefixCalls, ErrCall(0, Len(src), "HexOddDigits"))
        /\ entry = "try_parse_string_literal" =>
               /\ out = <<>>
               /\ errs = [j \in 1..Len(calls) |->
                              [lo |-> calls[j].lo, hi |-> calls[j].hi, e |-> calls[j].e]]

\* The literal 0x1_: a prefix, one digit and a trailing underscore.
C25_Witness ==
    /\ UnescapeDone /\ mode = "HexStr"
    /\ entry = "try_parse_string_literal"
    /\ src = <<48, 120, 49, UNDERSCORE>>
    /\ calls = <<ErrCall(0, 2, "HexPrefix"), ErrCall(0, 4, "HexOddDigits")>>
    /\ Len(errs) = 2
    /\ out = <<>>


\* A hex literal with an even number of hex digits has been scanned.
HexScanned == UnescapeDone /\ mode = "HexStr" /\ Cardinality(HexDigitOffsets) % 2 = 0

\* The offsets of the underscores of the body of src.
UnderscoreOffsets == {k \in HexBody..(Len(src) - 1) : src[k + 1] = UNDERSCORE}

\* The offsets of the characters of the body that are neither hex digits nor
\* underscores.
OtherOffsets ==
    {k \in HexBody..(Len(src) - 1) :
        k \in Boundaries /\ src[k + 1] \notin is_ascii_hexdigit \cup {UNDERSCORE}}

\* The number of hex digits of the body before offset k.
DigitsBefore(k) == Cardinality({d \in HexDigitOffsets : d < k})

\* The underscore at offset k stands between two complete pairs of hex digits.
BetweenPairs(k) ==
    /\ {k - 2, k - 1, k + 1, k + 2} \subseteq HexDigitOffsets
    /\ DigitsBefore(k) % 2 = 0

\* The indices of the HexBadUnderscore callbacks.
BadUnderscoreCalls == {j \in 1..Len(calls) : ~calls[j].ok /\ calls[j].e = "HexBadUnderscore"}

\* Each character that is neither a hex digit nor an underscore has its own
\* HexNotHexDigit callback.
EachOtherReported ==
    \A k \in OtherOffsets :
        Cardinality({j \in 1..Len(calls) :
                        calls[j] = ErrCall(k, CharEnd(k), "HexNotHexDigit")}) = 1

\* C26 as stated: an underscore is accepted silently only between two
\* complete pairs of hex digits; if any underscore stands elsewhere exactly one
\* HexBadUnderscore is reported, otherwise none.
C26_UnderscoreOnlyBetweenPairs ==
    HexScanned =>
        /\ Cardinality(BadUnderscoreCalls) =
               IF \E k \in UnderscoreOffsets : ~BetweenPairs(k) THEN 1 ELSE 0
        /\ EachOtherReported

\* src is made of hex digits only, an even number of them: the literal that
\* try_parse_string_literal decodes without running the engine.
HexDigitsOnly ==
    Len(src) % 2 = 0 /\ \A k \in 1..Len(src) : src[k] \in is_ascii_hexdigit

\* The underscore at offset k is accepted by the loop and by the final check:
\* an even number of digits precede it, a digit stands between it and the
\* previous underscore, and it does not end a literal longer than one byte.
InPlace(k) ==
    /\ DigitsBefore(k) % 2 = 0
    /\ \E d \in HexDigitOffsets :
           d < k /\ \A j \in (d + 1)..(k - 1) : src[j + 1] # UNDERSCORE
    /\ ~(k = Len(src) - 1 /\ Len(src) > 1)

Misplaced == {k \in UnderscoreOffsets : ~InPlace(k)}

\* The callbacks owed for the body of a hex literal: Ok for each digit,
\* HexNotHexDigit for each other character, HexBadUnderscore for the first
\* misplaced underscore only.
HexBodyCalls ==
    LET earliest == {k \in Misplaced : \A j \in Misplaced : k <= j}
        at == Ascending(HexDigitOffsets \cup OtherOffsets \cup earliest)
        call(k) == CASE k \in HexDigitOffsets -> OkCall(k, k + 1, src[k + 1])
                     [] k \in earliest -> ErrCall(k, k + 1, "HexBadUnderscore")
                     [] OTHER -> ErrCall(k, CharEnd(k), "HexNotHexDigit")
    IN  [j \in 1..Len(at) |-> call(at[j])]

\* C26: in a hex literal with an even number of hex digits, an underscore is
\* accepted silently when an even number of digits precede it, a digit stands
\* between it and the previous underscore, and it does not end the literal; a
\* leading, trailing or doubled underscore and one inside a byte are
\* misplaced, only the first misplaced underscore reports HexBadUnderscore, an
\* underscore after a complete pair is accepted whatever follows it unless it
\* is last, and each character that is neither a hex digit nor an underscore
\* reports its own HexNotHexDigit.
C26_FirstMisplacedUnderscore ==
    HexScanned =>
        /\ calls = IF entry = "try_parse_string_literal" /\ HexDigitsOnly
                   THEN <<>> ELSE HexPrefixCalls \o HexBodyCalls
        /\ Cardinality(BadUnderscoreCalls) <= 1
        /\ (\A k \in UnderscoreOffsets : BetweenPairs(k)) => BadUnderscoreCalls = {}
        /\ EachOtherReported

\* 1f__: a doubled and trailing underscore reported once, on the second.
C26_Witness ==
    /\ HexScanned
    /\ src = <<49, 102, UNDERSCORE, UNDERSCORE>>
    /\ calls = <<OkCall(0, 1, 49), OkCall(1, 2, 102), ErrCall(3, 4, "HexBadUnderscore")>>


\* try_parse_string_literal is at a \x or \u escape with all its hex digits.
AtWellFormedEscape ==
    AtHexEscape /\ entry = "try_parse_string_literal" /\ EscapeCallback(ui).ok

\* C27: in Str and UnicodeStr modes a well-formed \xNN escape adds exactly one
\* byte, of value NN, to the output of try_parse_string_literal for every NN
\* in 0x00..0xFF, and a well-formed \uNNNN escape adds at most 3 bytes.
C27_HexEscapeOneByte ==
    [][AtWellFormedEscape =>
          IF src[ui + 2] = 120
          THEN dst' = Append(dst, EscapeCallback(ui).c)
          ELSE Len(dst') - Len(dst) <= 3]_vars

\* The literal \xe8 decoded to the two bytes C3 A8.
C27_Witness ==
    /\ UnescapeDone
    /\ entry = "try_parse_string_literal"
    /\ src = <<BACKSLASH, 120, 101, 56>>
    /\ calls = <<OkCall(0, 4, 232)>>
    /\ out = <<195, 168>>


\* The UTF-8 encoding of the code point c.
Utf8Of(c) ==
    LET n == CASE c < 128 -> 1 [] c \in 128..2047 -> 2 [] c \in 2048..65535 -> 3
               [] OTHER -> 4
        lead == CASE n = 2 -> 192 [] n = 3 -> 224 [] OTHER -> 240
        RECURSIVE pow64(_)
        pow64(j) == IF j = 0 THEN 1 ELSE 64 * pow64(j - 1)
    IN  IF n = 1 THEN <<c>>
        ELSE [j \in 1..n |-> IF j = 1 THEN lead + (c \div pow64(n - 1))
                             ELSE 128 + ((c \div pow64(n - j)) % 64)]

\* The (range, error) pairs of the Err callbacks of cs, in order.
ErrPairs(cs) ==
    LET at == Ascending({j \in 1..Len(cs) : ~cs[j].ok})
    IN  [k \in 1..Len(at) |-> [lo |-> cs[at[k]].lo, hi |-> cs[at[k]].hi, e |-> cs[at[k]].e]]

\* The UTF-8 encodings of the code points of the Ok callbacks of cs, in order.
OkBytes(cs) ==
    LET RECURSIVE enc(_)
        enc(j) == IF j > Len(cs) THEN <<>>
                  ELSE (IF cs[j].ok THEN Utf8Of(cs[j].c) ELSE <<>>) \o enc(j + 1)
    IN  enc(1)

\* C28: for every source and mode, try_parse_string_literal passes to its
\* error callback exactly the (range, error) pairs, in order, that
\* unescape_literal passes as Err, and in Str / UnicodeStr mode it returns the
\* concatenation, in order, of the UTF-8 encodings of the code points that
\* unescape_literal passes as Ok.
C28_TryParseMatchesUnescapeLiteral ==
    UnescapeDone =>
        /\ entry = "unescape_literal" => calls = unescape_literal(src, mode)
        /\ entry = "try_parse_string_literal" =>
               /\ errs = ErrPairs(unescape_literal(src, mode))
               /\ mode \in StrModes => out = OkBytes(unescape_literal(src, mode))

\* a, LF, a: one error passed on and two bytes returned.
C28_Witness ==
    /\ UnescapeDone
    /\ entry = "try_parse_string_literal"
    /\ src = <<97, LF, LF, 97>>
    /\ errs = ErrPairs(<<ErrCall(1, 2, "StrNewline"), ErrCall(2, 3, "StrNewline")>>)
    /\ out = <<97, 97>>


(***************************************************************************)
(* Session: the builder, the session it builds, and the closures the       *)
(* session runs inline or hands to the thread pool.                        *)
(***************************************************************************)
\* The thread counts given to the builder: all cores, one thread, two threads.
ThreadCounts == {0, 1, 2}

\* The numbers of logical cores a machine of the model has.
CoreCounts == {1, 2}

\* A DiagCtxt as the session sees it: the source map source_map_mut() gives,
\* an Arc<SourceMap> identified by the number of its allocation, or None.
DiagCtxt(source_map) == [set |-> TRUE, source_map |-> source_map]

\* SessionBuilder::default()
SessionBuilder_default == [dcx |-> NoDcx, source_map |-> None, threads |-> None]

\* usize into Threads: zero stands for the number of logical cores.
resolve_threads(n, ncores) == IF n = 0 THEN ncores ELSE n

\* SessionBuilder::get_source_map: the builder's source map, set to a new
\* default one (the allocation `fresh`) when the builder has none.
get_source_map(b, fresh) == IF b.source_map = None THEN fresh ELSE b.source_map

\* with_test_emitter, with_stderr_emitter_and_color and with_buffer_emitter.
with_emitter(b, fresh) ==
    LET sm == get_source_map(b, fresh)
    IN  [b EXCEPT !.source_map = sm, !.dcx = DiagCtxt(sm)]

\* SessionBuilder::with_silent_emitter: a context made without a source map.
with_silent_emitter(b) == [b EXCEPT !.dcx = DiagCtxt(None)]

\* SessionBuilder::threads
SessionBuilder_threads(b, n, ncores) == [b EXCEPT !.threads = resolve_threads(n, ncores)]

\* SessionBuilder::build returning the session without comparing it with the
\* context's source map.
SessionBuilder_build_Unchecked(b, fresh, id, ncores) ==
    IF ~b.dcx.set
    THEN [state |-> "panic", msg |-> "diagnostics context not set"]
    ELSE [state |-> "built", dcx |-> b.dcx,
          source_map |-> IF b.source_map = None THEN fresh ELSE b.source_map,
          session_id |-> id,
          threads |-> IF b.threads = None THEN resolve_threads(0, ncores) ELSE b.threads]

\* SessionBuilder::build on builder b, where `fresh` is the SourceMap that
\* try_build allocates for a source map still unset and id the value it
\* fetches from SESSION_COUNTER.
SessionBuilder_build(b, fresh, id, ncores) ==
    IF ~b.dcx.set
    THEN [state |-> "panic", msg |-> "diagnostics context not set"]
    ELSE LET adopted == IF b.source_map = None THEN b.dcx.source_map ELSE b.source_map
             source_map == IF adopted = None THEN fresh ELSE adopted
         IN  IF b.dcx.source_map # None /\ b.dcx.source_map # source_map
             THEN [state |-> "panic",
                   msg |-> "session source map does not match the one in the diagnostics context"]
             ELSE [state |-> "built", dcx |-> b.dcx, source_map |-> source_map,
                   session_id |-> id,
                   threads |-> IF b.threads = None THEN resolve_threads(0, ncores)
                               ELSE b.threads]

\* try_build allocates a default SourceMap for builder b.
AllocatesSourceMap(b) ==
    b.dcx.set /\ b.source_map = None /\ b.dcx.source_map = None

\* Session::threads
Session_threads(s) == s.threads

\* Session::is_sequential answering for the parallel sessions.
Session_is_sequential_Parallel(s) == Session_threads(s) > 1

\* Session::is_sequential
Session_is_sequential(s) == Session_threads(s) = 1

\* What a closure returns.
Result(t) == <<"result of", t>>

\* No result yet.
NoResult == <<>>

\* An entry of the log, made for the session in use.
Event(ev, task, thread, res) ==
    [ev |-> ev, task |-> task, thread |-> thread, sess |-> sess.session_id, res |-> res]

\* A closure handed to the thread pool.
Job(task) == [task |-> task, sess |-> sess.session_id, at |-> Len(log)]

\* The number of calls of spawn and join that have returned.
Returns ==
    Cardinality({i \in 1..Len(log) : log[i].ev \in {"spawn returns", "join returns"}})

\* A builder is in use: nothing is built yet.
Building == sess.state = "none"

Built == sess.state = "built"

\* The SourceMap objects a caller can pass: those allocated and a new one.
Passable == 1..(IF arcs < MaxArcs THEN arcs + 1 ELSE arcs)

SessionInit ==
    /\ builder = SessionBuilder_default
    /\ sess = [state |-> "none"]
    /\ arcs = 0
    /\ SESSION_COUNTER = 0
    /\ cores \in CoreCounts
    /\ stack = <<>> /\ pool = {} /\ log = <<>>
    /\ CursorIdle /\ UnescapeIdle /\ SpanIdle /\ CallIdle /\ EnterIdle

\* with_test_emitter, with_stderr_emitter, with_stderr_emitter_and_color or
\* with_buffer_emitter is called on the builder.
WithEmitter ==
    /\ Building
    /\ builder.source_map = None => arcs < MaxArcs
    /\ builder' = with_emitter(builder, arcs + 1)
    /\ arcs' = IF builder.source_map = None THEN arcs + 1 ELSE arcs
    /\ UNCHANGED <<sess, SESSION_COUNTER, cores, stack, pool, log,
                   cursorVars, unescapeVars, spanVars, callVars,
                 enterVars>>

WithSilentEmitter ==
    /\ Building
    /\ builder' = with_silent_emitter(builder)
    /\ UNCHANGED <<sess, arcs, SESSION_COUNTER, cores, stack, pool, log,
                   cursorVars, unescapeVars, spanVars, callVars,
                 enterVars>>

\* The dcx setter of the builder, with a context made by the caller around no
\* source map, one already allocated or a new one.
SetDcx ==
    /\ Building
    /\ \E sm \in {None} \cup Passable :
           /\ builder' = [builder EXCEPT !.dcx = DiagCtxt(sm)]
           /\ arcs' = IF sm # None /\ sm > arcs THEN sm ELSE arcs
    /\ UNCHANGED <<sess, SESSION_COUNTER, cores, stack, pool, log,
                   cursorVars, unescapeVars, spanVars, callVars,
                 enterVars>>

\* The source_map setter of the builder.
SetSourceMap ==
    /\ Building
    /\ \E sm \in Passable :
           /\ builder' = [builder EXCEPT !.source_map = sm]
           /\ arcs' = IF sm > arcs THEN sm ELSE arcs
    /\ UNCHANGED <<sess, SESSION_COUNTER, cores, stack, pool, log,
                   cursorVars, unescapeVars, spanVars, callVars,
                 enterVars>>

\* SessionBuilder::threads and single_threaded.
SetThreads ==
    /\ Building
    /\ \E n \in ThreadCounts : builder' = SessionBuilder_threads(builder, n, cores)
    /\ UNCHANGED <<sess, arcs, SESSION_COUNTER, cores, stack, pool, log,
                   cursorVars, unescapeVars, spanVars, callVars,
                 enterVars>>

\* SessionBuilder::build on builder b: try_build fetches the session id and
\* allocates the default source map before the comparison is made.
BuildFrom(b) ==
    /\ SESSION_COUNTER < MaxSessions
    /\ AllocatesSourceMap(b) => arcs < MaxArcs
    /\ sess' = SessionBuilder_build(b, arcs + 1, SESSION_COUNTER, cores)
    /\ builder' = b
    /\ SESSION_COUNTER' = IF ~b.dcx.set THEN SESSION_COUNTER ELSE SESSION_COUNTER + 1
    /\ arcs' = IF AllocatesSourceMap(b) THEN arcs + 1 ELSE arcs
    /\ UNCHANGED <<cores, stack, pool, log, cursorVars, unescapeVars, spanVars, callVars,
                 enterVars>>

Build == Building /\ BuildFrom(builder)

\* Session::new(dcx, source_map)
SessionNew ==
    /\ Building /\ builder = SessionBuilder_default
    /\ \E d \in {None} \cup Passable, sm \in Passable :
           /\ (d # None /\ d > arcs) => sm <= d
           /\ LET b == [SessionBuilder_default EXCEPT !.dcx = DiagCtxt(d), !.source_map = sm]
                  top == IF d # None /\ d > sm THEN d ELSE sm
              IN  /\ SESSION_COUNTER < MaxSessions
                  /\ sess' = SessionBuilder_build(b, top + 1, SESSION_COUNTER, cores)
                  /\ builder' = b
                  /\ SESSION_COUNTER' = SESSION_COUNTER + 1
                  /\ arcs' = IF top > arcs THEN top ELSE arcs
    /\ UNCHANGED <<cores, stack, pool, log, cursorVars, unescapeVars, spanVars, callVars,
                 enterVars>>

\* Session::empty(dcx)
SessionEmpty ==
    /\ Building /\ builder = SessionBuilder_default
    /\ \E d \in {None} \cup Passable :
           /\ (d = None \/ d > arcs) => arcs < MaxArcs
           /\ LET b == [SessionBuilder_default EXCEPT !.dcx = DiagCtxt(d)]
                  top == IF d # None /\ d > arcs THEN d ELSE arcs
              IN  /\ SESSION_COUNTER < MaxSessions
                  /\ sess' = SessionBuilder_build(b, top + 1, SESSION_COUNTER, cores)
                  /\ builder' = b
                  /\ SESSION_COUNTER' = SESSION_COUNTER + 1
                  /\ arcs' = IF d = None THEN top + 1 ELSE top
    /\ UNCHANGED <<cores, stack, pool, log, cursorVars, unescapeVars, spanVars, callVars,
                 enterVars>>

\* Session::builder(): a new builder, once the previous build is over, the
\* calling thread is in no call of the session and the pool has run what it
\* was handed; the log starts again for the next session.
SessionBuilderNew ==
    /\ ~Building /\ stack = <<>> /\ pool = {}
    /\ SESSION_COUNTER < MaxSessions
    /\ builder' = SessionBuilder_default
    /\ sess' = [state |-> "none"]
    /\ log' = <<>>
    /\ UNCHANGED <<arcs, SESSION_COUNTER, cores, stack, pool,
                   cursorVars, unescapeVars, spanVars, callVars,
                 enterVars>>

\* Session::spawn(f) is called: a sequential session starts f on the calling
\* thread, a parallel one hands f to rayon::spawn and returns.
SpawnCall ==
    /\ Built /\ stack = <<>> /\ Returns < MaxCalls
    /\ LET f == "f"
       IN  IF Session_is_sequential(sess)
           THEN /\ stack' = <<[fn |-> "spawn", a |-> f, b |-> "none", at |-> "a",
                               ra |-> NoResult, rb |-> NoResult]>>
                /\ log' = Append(log, Event("start", <<f>>, "caller", NoResult))
                /\ pool' = pool
           ELSE /\ pool' = pool \cup {Job(f)}
                /\ log' = Append(log, Event("spawn returns", <<f>>, "caller", NoResult))
                /\ stack' = stack
    /\ UNCHANGED <<builder, sess, arcs, SESSION_COUNTER, cores,
                   cursorVars, unescapeVars, spanVars, callVars,
                 enterVars>>

\* Session::join(oper_a, oper_b) is called: oper_a starts on the calling
\* thread; a parallel session offers oper_b to the pool through rayon::join.
JoinCall ==
    /\ Built /\ stack = <<>> /\ Returns < MaxCalls
    /\ LET a == "oper_a"
           b == "oper_b"
       IN  /\ stack' = <<[fn |-> "join", a |-> a, b |-> b, at |-> "a",
                          ra |-> NoResult, rb |-> NoResult]>>
           /\ log' = Append(log, Event("start", <<a>>, "caller", NoResult))
           /\ pool' = IF Session_is_sequential(sess) THEN pool
                      ELSE pool \cup {[Job(b) EXCEPT !.at = -1]}
    /\ UNCHANGED <<builder, sess, arcs, SESSION_COUNTER, cores,
                   cursorVars, unescapeVars, spanVars, callVars,
                 enterVars>>

\* The closure running on the calling thread comes to its end.
ClosureEnds ==
    /\ stack # <<>> /\ stack[1].at \in {"a", "b"}
    /\ LET fr == stack[1]
           t == IF fr.at = "a" THEN fr.a ELSE fr.b
       IN  /\ log' = Append(log, Event("end", <<t>>, "caller", NoResult))
           /\ stack' = <<IF fr.at = "a"
                         THEN [fr EXCEPT !.ra = Result(t), !.at = "after a"]
                         ELSE [fr EXCEPT !.rb = Result(t), !.at = "after b"]>>
    /\ UNCHANGED <<builder, sess, arcs, SESSION_COUNTER, cores, pool,
                   cursorVars, unescapeVars, spanVars, callVars,
                 enterVars>>

\* oper_a of a join is over and oper_b was not taken by a worker: the calling
\* thread starts oper_b.
JoinRunsB ==
    /\ stack # <<>> /\ stack[1].fn = "join" /\ stack[1].at = "after a"
    /\ stack[1].rb = NoResult
    /\ Session_is_sequential(sess) \/ [Job(stack[1].b) EXCEPT !.at = -1] \in pool
    /\ pool' = pool \ {[Job(stack[1].b) EXCEPT !.at = -1]}
    /\ log' = Append(log, Event("start", <<stack[1].b>>, "caller", NoResult))
    /\ stack' = <<[stack[1] EXCEPT !.at = "b"]>>
    /\ UNCHANGED <<builder, sess, arcs, SESSION_COUNTER, cores,
                   cursorVars, unescapeVars, spanVars, callVars,
                 enterVars>>

\* A worker of the pool runs a closure handed to it; oper_b of a join in
\* progress gives its result to the join.
WorkerRuns ==
    /\ \E j \in pool :
           /\ pool' = pool \ {j}
           /\ log' = log \o <<[ev |-> "start", task |-> <<j.task>>, thread |-> "worker",
                               sess |-> j.sess, res |-> NoResult],
                              [ev |-> "end", task |-> <<j.task>>, thread |-> "worker",
                               sess |-> j.sess, res |-> NoResult]>>
           /\ stack' = IF j.at = -1
                       THEN <<[stack[1] EXCEPT !.rb = Result(j.task)]>>
                       ELSE stack
    /\ UNCHANGED <<builder, sess, arcs, SESSION_COUNTER, cores,
                   cursorVars, unescapeVars, spanVars, callVars,
                 enterVars>>

\* spawn returns after f, join after both closures, with both results.
CallReturns ==
    /\ stack # <<>>
    /\ LET fr == stack[1]
       IN  \/ /\ fr.fn = "spawn" /\ fr.at = "after a"
              /\ log' = Append(log, Event("spawn returns", <<fr.a>>, "caller", NoResult))
           \/ /\ fr.fn = "join" /\ fr.at \in {"after a", "after b"}
              /\ fr.ra # NoResult /\ fr.rb # NoResult
              /\ log' = Append(log, Event("join returns", <<fr.a, fr.b>>, "caller",
                                          <<fr.ra, fr.rb>>))
    /\ stack' = <<>>
    /\ UNCHANGED <<builder, sess, arcs, SESSION_COUNTER, cores, pool,
                   cursorVars, unescapeVars, spanVars, callVars,
                 enterVars>>

SessionNext ==
    \/ WithEmitter
    \/ WithSilentEmitter
    \/ SetDcx
    \/ SetSourceMap
    \/ SetThreads
    \/ Build
    \/ SessionNew
    \/ SessionEmpty
    \/ SessionBuilderNew
    \/ SpawnCall
    \/ JoinCall
    \/ ClosureEnds
    \/ JoinRunsB
    \/ WorkerRuns
    \/ CallReturns

SpecSession == SessionInit /\ [][SessionNext]_vars


\* What the builder was given decides the source map of the session: the one
\* given, else the one of the context, else a new one.
C29_Adoption ==
    /\ sess.dcx = builder.dcx
    /\ builder.source_map # None => sess.source_map = builder.source_map
    /\ (builder.source_map = None /\ builder.dcx.source_map # None) =>
           sess.source_map = builder.dcx.source_map

\* C29 as stated: whenever build returns a session, its source map and the
\* one held by its diagnostic context are the same object, and a builder
\* given no source map adopts the one inside the context.
C29_SameSourceMap ==
    Built =>
        /\ sess.source_map = sess.dcx.source_map
        /\ builder.source_map = None => sess.source_map = builder.dcx.source_map

\* C29: whenever build returns a session whose diagnostic context holds a
\* source map, that source map and the session's are the same object (build
\* panics when they differ); a builder given no source map adopts the one
\* inside the context when there is one; when the context holds none, as
\* after with_silent_emitter, the session has the source map given to the
\* builder or else a new one, and the context still holds none.
C29_SameSourceMapWhenContextHasOne ==
    /\ Built =>
           /\ sess.dcx.source_map # None => sess.source_map = sess.dcx.source_map
           /\ C29_Adoption
           /\ (builder.source_map = None /\ builder.dcx.source_map = None) =>
                  /\ sess.source_map = arcs
                  /\ sess.dcx.source_map = None
    /\ (sess.state = "panic" /\ builder.dcx.set) =>
           /\ builder.dcx.source_map # None /\ builder.source_map # None
           /\ builder.dcx.source_map # builder.source_map

\* A builder given a context around a source map, and no source map, has
\* built a session that shares the context's.
C29_Witness ==
    /\ Built
    /\ builder.source_map = None
    /\ sess.dcx.source_map # None
    /\ sess.source_map = sess.dcx.source_map

\* The events of the session in use, in the order of the log.
Mine == SelectSeq(log, LAMBDA e : e.sess = sess.session_id)

Sequential == Built /\ sess.threads = 1

\* C30: in a session with threads == 1, spawn(f) returns only after f has
\* started and ended on the calling thread, join(a, b) returns only after a
\* and then b have started and ended on the calling thread, with both
\* results, and no closure of the session is handed to the pool or run by a
\* worker.
C30_SequentialRunsInline ==
    Sequential =>
        /\ \A j \in pool : j.sess # sess.session_id
        /\ \A i \in 1..Len(Mine) : Mine[i].thread = "caller"
        /\ \A r \in 1..Len(Mine) :
               /\ Mine[r].ev = "spawn returns" =>
                      /\ r >= 3
                      /\ Mine[r - 2] = Event("start", Mine[r].task, "caller", NoResult)
                      /\ Mine[r - 1] = Event("end", Mine[r].task, "caller", NoResult)
               /\ Mine[r].ev = "join returns" =>
                      /\ r >= 5
                      /\ Mine[r - 4] = Event("start", <<Mine[r].task[1]>>, "caller", NoResult)
                      /\ Mine[r - 3] = Event("end", <<Mine[r].task[1]>>, "caller", NoResult)
                      /\ Mine[r - 2] = Event("start", <<Mine[r].task[2]>>, "caller", NoResult)
                      /\ Mine[r - 1] = Event("end", <<Mine[r].task[2]>>, "caller", NoResult)
                      /\ Mine[r].res = <<Result(Mine[r].task[1]), Result(Mine[r].task[2])>>
        /\ stack # <<>> => Mine[Len(Mine)].ev \in {"start", "end"}

\* A sequential session has returned from a spawn and then from a join.
C30_Witness ==
    /\ Sequential
    /\ Len(log) = 8
    /\ log[3] = Event("spawn returns", <<"f">>, "caller", NoResult)
    /\ log[8] = Event("join returns", <<"oper_a", "oper_b">>, "caller",
                       <<Result("oper_a"), Result("oper_b")>>)


(***************************************************************************)
(* C39: the cursor is memoryless across tokens: every token returned       *)
(* (kind, flags and length) is the first token of a fresh cursor over the  *)
(* suffix of the input that begins at the boundary where the token starts, *)
(* and the call leaves the cursor where that fresh cursor would stand.     *)
(***************************************************************************)
\* The input from offset k on: what Cursor::new is given for the suffix.
Suffix(k) == SubSeq(bytes, k + 1, Len(bytes))

C39_MemorylessAcrossTokens ==
    /\ \A i \in 1..Len(tokens) :
           tokens[i] = advance_token(Suffix(StartOf(i)), 0).tok
    /\ tokens # <<>> =>
           pos = StartOf(Len(tokens))
                   + advance_token(Suffix(StartOf(Len(tokens))), 0).pos

\* After an identifier and whitespace the third token is the Int that a fresh
\* cursor over "1" returns.
C39_Witness ==
    /\ bytes = <<120, SPACE, 49>>
    /\ Len(tokens) = 3
    /\ StartOf(3) = 2
    /\ tokens[3] = RawToken(IntKind("Decimal", FALSE), 1)

(***************************************************************************)
(* C40: whitespace and identifier tokens are maximal: a Whitespace token   *)
(* is never immediately followed by another Whitespace token, and an Ident *)
(* token is never immediately followed by a token whose first byte is an   *)
(* identifier-continue byte, so the next token is never an Ident, and a    *)
(* numeric literal directly after an Ident begins with '.', never with a   *)
(* digit.                                                                  *)
(***************************************************************************)
\* The first byte of the i-th token returned (Eof has none).
FirstByteOf(i) == bytes[StartOf(i) + 1]

IsNumeric(t) == t.kind.kind = "Literal" /\ t.kind.lit \in {"Int", "Rational"}

\* Adjacent tokens i, i + 1 with Whitespace never before Whitespace and Ident
\* never before a token that begins with an identifier-continue byte.
MaximalAt(i) ==
    /\ tokens[i].kind = Tok("Whitespace") =>
           tokens[i + 1].kind # Tok("Whitespace")
    /\ tokens[i].kind = Tok("Ident") =>
           /\ ~IsEof(tokens[i + 1]) =>
                  FirstByteOf(i + 1) \notin is_id_continue_byte
           /\ tokens[i + 1].kind # Tok("Ident")

\* The statement with its consequence as given: no numeric literal directly
\* after an Ident.
C40_NoNumberAfterIdent ==
    \A i \in 1..(Len(tokens) - 1) :
        /\ MaximalAt(i)
        /\ tokens[i].kind = Tok("Ident") => ~IsNumeric(tokens[i + 1])

C40_MaximalTokens ==
    \A i \in 1..(Len(tokens) - 1) :
        /\ MaximalAt(i)
        /\ (tokens[i].kind = Tok("Ident") /\ IsNumeric(tokens[i + 1])) =>
               /\ FirstByteOf(i + 1) = DOT
               /\ tokens[i + 1].kind.lit = "Rational"

\* An identifier directly followed by the Rational ".1".
C40_Witness ==
    /\ bytes = <<120, DOT, 49>>
    /\ Len(tokens) = 2
    /\ tokens[1] = RawToken(Tok("Ident"), 1)
    /\ tokens[2] = RawToken(RationalKind("Decimal", FALSE), 2)

(***************************************************************************)
(* C38: in HexStr mode the bytes try_parse_string_literal hands to         *)
(* hex::decode are an even-length string of hex digits only: the hex       *)
(* digits of the body in source order when their count is even, nothing    *)
(* when it is odd, and no character that produced an error.  So the decode *)
(* does not fail and the result is the bytes formed by consecutive pairs   *)
(* of the accepted hex digits.                                             *)
(***************************************************************************)
\* What try_parse_string_literal passes to hex::decode: the buffer of
\* parse_literal_unescape, or the source itself when nothing needed unescaping.
HandedToDecode ==
    IF Len(src) % 2 = 0 /\ \A k \in 1..Len(src) : src[k] \in is_ascii_hexdigit
    THEN src ELSE dst

\* The hex digits the scan accepts, in source order: all of the body's when
\* their count is even, none when it is odd.
AcceptedDigits ==
    IF Cardinality(HexDigitOffsets) % 2 = 1 THEN <<>>
    ELSE LET at == Ascending(HexDigitOffsets)
         IN  [i \in 1..Len(at) |-> src[at[i] + 1]]

\* The value of an ASCII hex digit.
HexValueOf(c) ==
    CHOOSE v \in 0..15 :
        \/ v < 10 /\ c = 48 + v
        \/ v >= 10 /\ c \in {87 + v, 55 + v}

\* The bytes formed by consecutive pairs of the digits ds.
PairBytes(ds) ==
    [k \in 1..(Len(ds) \div 2) |-> 16 * HexValueOf(ds[2 * k - 1]) + HexValueOf(ds[2 * k])]

HexParsed == UnescapeDone /\ mode = "HexStr" /\ entry = "try_parse_string_literal"

C38_HexDecodeNeverFails ==
    HexParsed =>
        /\ Len(HandedToDecode) % 2 = 0
        /\ \A k \in 1..Len(HandedToDecode) : HandedToDecode[k] \in is_ascii_hexdigit
        /\ HandedToDecode = AcceptedDigits
        /\ hex_decode(HandedToDecode).ok
        /\ out = PairBytes(AcceptedDigits)
        /\ 2 * Len(out) = Len(AcceptedDigits)

\* `A_A1f`: the underscore inside the first pair is reported and left out, and
\* the four digits decode to AA 1F.
C38_Witness ==
    /\ HexParsed
    /\ src = <<65, UNDERSCORE, 65, 49, 102>>
    /\ errs = <<[lo |-> 1, hi |-> 2, e |-> "HexBadUnderscore"]>>
    /\ dst = <<65, 65, 49, 102>>
    /\ out = <<170, 31>>

(***************************************************************************)
(*                       The character predicates                          *)
(*              (crates/parse/src/lexer/cursor/mod.rs, 16-84)              *)
(* A char is its Unicode scalar value.                                     *)
(***************************************************************************)
\* ch2u8: `c as u32 as u8` keeps the low eight bits of the scalar value.
ch2u8(c) == c % 256

is_whitespace(c) == ch2u8(c) \in is_whitespace_byte

is_id_start(c) == ch2u8(c) \in is_id_start_byte

is_id_continue(c) == ch2u8(c) \in is_id_continue_byte

\* The chars of the model: every scalar value up to MaxCodePoint (all below the
\* surrogate range).
CharInputs == 0..MaxCodePoint

CharPredicates == {"is_whitespace", "is_id_start", "is_id_continue"}

CharsInit ==
    /\ invocation \in [fn : CharPredicates, c : CharInputs]
    /\ outcome = [returned |-> FALSE]
    /\ CursorIdle /\ UnescapeIdle /\ SpanIdle /\ SessionIdle /\ EnterIdle

\* The predicate named by the invocation returns.
CharReturn(name, value) ==
    /\ invocation.fn = name
    /\ ~outcome.returned
    /\ outcome' = [returned |-> TRUE, value |-> value]
    /\ UNCHANGED <<invocation, cursorVars, unescapeVars, spanVars, sessionVars, enterVars>>

IsWhitespace == CharReturn("is_whitespace", is_whitespace(invocation.c))

IsIdStart == CharReturn("is_id_start", is_id_start(invocation.c))

IsIdContinue == CharReturn("is_id_continue", is_id_continue(invocation.c))

CharsNext == IsWhitespace \/ IsIdStart \/ IsIdContinue

SpecChars == CharsInit /\ [][CharsNext]_vars

(***************************************************************************)
(* C34: for every char c, is_whitespace(c) is true iff c is space, tab, LF *)
(* or CR, is_id_start(c) is true iff c is in [a-z], [A-Z], '_' or '$', and *)
(* is_id_continue(c) is true iff is_id_start(c) or c is in [0-9].          *)
(***************************************************************************)
\* The chars each predicate is to accept, as scalar values.
WhitespaceChars == {32, 9, 10, 13}

IdStartChars == (97..122) \cup (65..90) \cup {95, 36}

IdContinueChars == IdStartChars \cup (48..57)

C34_CharPredicatesExact ==
    outcome.returned =>
        /\ invocation.fn = "is_whitespace" =>
               (outcome.value <=> invocation.c \in WhitespaceChars)
        /\ invocation.fn = "is_id_start" =>
               (outcome.value <=> invocation.c \in IdStartChars)
        /\ invocation.fn = "is_id_continue" =>
               (outcome.value <=> invocation.c \in IdContinueChars)

\* is_whitespace has returned true for U+0120, whose low byte is the space.
C34_Witness ==
    /\ invocation = [fn |-> "is_whitespace", c |-> 288]
    /\ outcome = [returned |-> TRUE, value |-> TRUE]

(***************************************************************************)
(*                           The builtin table                             *)
(*                   (crates/sema/src/builtins/mod.rs)                     *)
(***************************************************************************)
\* The variants of enum Builtin in declaration order (declare_builtins!).
BuiltinVariants ==
    <<"Blockhash", "Blobhash", "Gasleft", "Selfdestruct", "Assert", "Require",
      "RequireMsg", "Revert", "RevertMsg", "AddMod", "MulMod", "Keccak256",
      "Sha256", "Ripemd160", "EcRecover", "Block", "Msg", "Tx", "Abi", "This",
      "Super", "BlockCoinbase", "BlockTimestamp", "BlockDifficulty",
      "BlockPrevrandao", "BlockNumber", "BlockGaslimit", "BlockChainid",
      "BlockBasefee", "BlockBlobbasefee", "MsgSender", "MsgGas", "MsgValue",
      "MsgData", "MsgSig", "TxOrigin", "TxGasPrice", "AbiEncode",
      "AbiEncodePacked", "AbiEncodeWithSelector", "AbiEncodeCall",
      "AbiEncodeWithSignature", "AbiDecode", "AddressBalance", "AddressCode",
      "AddressCodehash", "AddressCall", "AddressDelegatecall",
      "AddressStaticcall", "AddressPayableTransfer", "AddressPayableSend",
      "FixedBytesLength", "ArrayLength", "ErrorSelector", "EventSelector",
      "ContractCreationCode", "ContractRuntimeCode", "ContractName",
      "InterfaceId", "TypeMin", "TypeMax", "UdvtWrap", "UdvtUnwrap",
      "StringConcat", "BytesConcat">>

Builtin == {BuiltinVariants[k] : k \in 1..Len(BuiltinVariants)}

\* Builtin::COUNT: one per variant.
COUNT == Len(BuiltinVariants)

\* `b as usize` of a repr(u8) enum without explicit discriminants: the position
\* of the variant in the declaration, from 0.
discriminant(b) == (CHOOSE k \in 1..Len(BuiltinVariants) : BuiltinVariants[k] = b) - 1

\* `i as Primitive`: usize to u8 keeps the low eight bits.
as_Primitive(i) == i % (Primitive_MAX + 1)

\* transmute::<Primitive, Builtin>(p): the variant whose discriminant is p
\* (from_index calls it only for a p that is a discriminant).
transmute(p) == CHOOSE b \in Builtin : discriminant(b) = p

\* Option<Builtin>
SomeBuiltin(b) == [some |-> TRUE, v |-> b]

NoBuiltin == [some |-> FALSE]

\* Mutant of from_index: the index is cast to Primitive before the range check.
from_index_Wrap(i) ==
    IF as_Primitive(i) < COUNT THEN SomeBuiltin(transmute(as_Primitive(i))) ELSE NoBuiltin

from_index(i) ==
    IF i < COUNT THEN SomeBuiltin(transmute(as_Primitive(i))) ELSE NoBuiltin

IndexInputs == 0..MaxIndex

\* A call of from_index(i), or Builtin::iter() with nothing taken from it yet.
BuiltinInit ==
    /\ \/ invocation \in [fn : {"from_index"}, i : IndexInputs] /\ outcome = [returned |-> FALSE]
       \/ invocation = [fn |-> "iter", i |-> 0]
          /\ outcome = [returned |-> FALSE, yielded |-> <<>>]
    /\ CursorIdle /\ UnescapeIdle /\ SpanIdle /\ SessionIdle /\ EnterIdle

FromIndex ==
    /\ invocation.fn = "from_index"
    /\ ~outcome.returned
    /\ outcome' = [returned |-> TRUE, value |-> from_index(invocation.i)]
    /\ UNCHANGED <<invocation, cursorVars, unescapeVars, spanVars, sessionVars, enterVars>>

\* next() of Builtin::iter(): the range 0..COUNT mapped through
\* from_index(i).unwrap(); the iterator is over when the range is.
IterNext ==
    /\ invocation.fn = "iter"
    /\ ~outcome.returned
    /\ IF invocation.i < COUNT
       THEN /\ from_index(invocation.i).some
            /\ invocation' = [invocation EXCEPT !.i = @ + 1]
            /\ outcome' = [outcome EXCEPT !.yielded = Append(@, from_index(invocation.i).v)]
       ELSE /\ outcome' = [outcome EXCEPT !.returned = TRUE]
            /\ UNCHANGED invocation
    /\ UNCHANGED <<cursorVars, unescapeVars, spanVars, sessionVars, enterVars>>

BuiltinNext == FromIndex \/ IterNext

SpecBuiltin == BuiltinInit /\ [][BuiltinNext]_vars

(***************************************************************************)
(* C32: from_index(i) returns Some(the variant whose discriminant is i)    *)
(* iff i < COUNT and None otherwise; the discriminants are dense in        *)
(* [0, COUNT) and COUNT <= 255, so from_index(b as usize) = Some(b) for    *)
(* every builtin b, and Builtin::iter() yields every variant exactly once  *)
(* in discriminant order.                                                  *)
(***************************************************************************)
\* The variant declared at position i, counting from 0, if there is one.
VariantAt(i) ==
    IF i + 1 \in 1..Len(BuiltinVariants)
    THEN [some |-> TRUE, v |-> BuiltinVariants[i + 1]]
    ELSE [some |-> FALSE]

DenseDiscriminants ==
    /\ Cardinality(Builtin) = COUNT
    /\ {discriminant(b) : b \in Builtin} = 0..(COUNT - 1)
    /\ COUNT <= 255

C32_FromIndexIsInverse ==
    /\ DenseDiscriminants
    /\ (invocation.fn = "from_index" /\ outcome.returned) =>
           /\ outcome.value = VariantAt(invocation.i)
           /\ outcome.value.some <=> invocation.i < COUNT
           /\ outcome.value.some => discriminant(outcome.value.v) = invocation.i
    /\ invocation.fn = "iter" =>
           /\ \A k \in 1..Len(outcome.yielded) : discriminant(outcome.yielded[k]) = k - 1
           /\ outcome.returned =>
                  /\ Len(outcome.yielded) = COUNT
                  /\ \A b \in Builtin :
                         Cardinality({k \in 1..Len(outcome.yielded) :
                                         outcome.yielded[k] = b}) = 1

\* from_index(256) has returned None, although 256 as u8 is the discriminant
\* of Blockhash.
C32_Witness ==
    /\ invocation = [fn |-> "from_index", i |-> 256]
    /\ outcome = [returned |-> TRUE, value |-> NoBuiltin]

(***************************************************************************)
(*                       The bulk scanning helpers                         *)
(*   (crates/parse/src/lexer/simd_lexer.rs: the chunked implementation;    *)
(*    regress.rs: the 32-byte bitmask implementation and its fallback)     *)
(***************************************************************************)
\* is_whitespace_fast and is_id_continue_fast of char_class_table, which
\* simd_lexer.rs imports: a lookup table that gives the boolean result of the
\* byte predicates.
is_whitespace_fast == {c \in Byte : c \in is_whitespace_byte}

is_id_continue_fast == {c \in Byte : c \in is_id_continue_byte}

\* The stubs of regress.rs with the same names, and the matches! of its
\* classify_chunk functions.
regress_is_whitespace_fast == {SPACE, TAB, LF, CR}

regress_is_id_continue_fast ==
    (97..122) \cup (65..90) \cup (48..57) \cup {UNDERSCORE, DOLLAR}

\* A chunk made of n copies of the byte c (the literals b"    ", b"\t\t...").
Repeat(c, n) == [k \in 1..n |-> c]

\* The unrolled checks of one chunk: the index of its first byte outside set,
\* or the chunk's length when there is none.
first_failing(chunk, set) ==
    LET RECURSIVE go(_)
        go(i) == IF i < Len(chunk) /\ chunk[i + 1] \in set THEN go(i + 1) ELSE i
    IN  go(0)

\* simd_lexer.rs: chunks of 16, 8 and 4 bytes, then byte by byte.
skip_whitespace_bulk(input) ==
    LET len == Len(input)
        RECURSIVE final(_), by4(_), by8(_), by16(_)
        final(off) ==
            IF off < len /\ input[off + 1] \in is_whitespace_fast THEN final(off + 1) ELSE off
        by4(off) ==
            IF off + 4 <= len
            THEN LET chunk == SubSeq(input, off + 1, off + 4)
                     i == first_failing(chunk, is_whitespace_fast)
                 IN  IF chunk = Repeat(SPACE, 4) THEN by4(off + 4)
                     ELSE IF i < 4 THEN off + i ELSE by4(off + 4)
            ELSE final(off)
        by8(off) ==
            IF off + 8 <= len
            THEN LET chunk == SubSeq(input, off + 1, off + 8)
                     i == first_failing(chunk, is_whitespace_fast)
                 IN  IF chunk = Repeat(SPACE, 8) THEN by8(off + 8)
                     ELSE IF i < 8 THEN off + i ELSE by8(off + 8)
            ELSE by4(off)
        by16(off) ==
            IF off + 16 <= len
            THEN LET chunk == SubSeq(input, off + 1, off + 16)
                     i == first_failing(chunk, is_whitespace_fast)
                 IN  IF chunk = Repeat(SPACE, 16) \/ chunk = Repeat(TAB, 16)
                     THEN by16(off + 16)
                     ELSE IF i < 16 THEN off + i ELSE by16(off + 16)
            ELSE by8(off)
    IN  IF input = <<>> THEN 0 ELSE by16(0)

parse_identifier_bulk(input) ==
    LET len == Len(input)
        RECURSIVE final(_), by4(_), by8(_), by16(_)
        final(off) ==
            IF off < len /\ input[off + 1] \in is_id_continue_fast THEN final(off + 1) ELSE off
        by4(off) ==
            IF off + 4 <= len
            THEN LET i == first_failing(SubSeq(input, off + 1, off + 4), is_id_continue_fast)
                 IN  IF i < 4 THEN off + i ELSE by4(off + 4)
            ELSE final(off)
        by8(off) ==
            IF off + 8 <= len
            THEN LET i == first_failing(SubSeq(input, off + 1, off + 8), is_id_continue_fast)
                 IN  IF i < 8 THEN off + i ELSE by8(off + 8)
            ELSE by4(off)
        by16(off) ==
            IF off + 16 <= len
            THEN LET i == first_failing(SubSeq(input, off + 1, off + 16), is_id_continue_fast)
                 IN  IF i < 16 THEN off + i ELSE by16(off + 16)
            ELSE by8(off)
    IN  IF input = <<>> THEN 0 ELSE by16(0)

\* classify_chunk_whitespace / classify_chunk_id_continue: the u32 bitmask of
\* a chunk of at most 32 bytes, as its bits 0..31 (bit i is set when byte i of
\* the chunk is in set).
classify_chunk(chunk, set) ==
    [i \in 0..(SIMD_WIDTH - 1) |-> i < Len(chunk) /\ chunk[i + 1] \in set]

\* Mutant of trailing_ones: every set bit is counted (count_ones).
trailing_ones_CountOnes(mask) == Cardinality({i \in DOMAIN mask : mask[i]})

\* u32::trailing_ones: the number of consecutive set bits from bit 0.
trailing_ones(mask) ==
    LET RECURSIVE go(_)
        go(i) == IF i < SIMD_WIDTH /\ mask[i] THEN go(i + 1) ELSE i
    IN  go(0)

\* The loop over whole SIMD_WIDTH chunks shared by skip_whitespace_simd and
\* parse_identifier_simd: ok is FALSE when a chunk held a byte outside set and
\* off is then the position to return.
simd_chunks(input, set) ==
    LET RECURSIVE go(_)
        go(off) ==
            IF off + SIMD_WIDTH <= Len(input)
            THEN LET chunk == SubSeq(input, off + 1, off + SIMD_WIDTH)
                     consecutive == trailing_ones(classify_chunk(chunk, set))
                 IN  IF consecutive = SIMD_WIDTH THEN go(off + SIMD_WIDTH)
                     ELSE [ok |-> FALSE, pos |-> off + consecutive]
            ELSE [ok |-> TRUE, pos |-> off]
    IN  go(0)

\* The byte-by-byte loops that handle the remaining bytes.
remaining_bytes(input, off, set) ==
    LET RECURSIVE go(_)
        go(q) == IF q < Len(input) /\ input[q + 1] \in set THEN go(q + 1) ELSE q
    IN  go(off)

skip_whitespace_simd(input) ==
    IF input = <<>> THEN 0
    ELSE LET r == simd_chunks(input, regress_is_whitespace_fast)
         IN  IF ~r.ok THEN r.pos
             ELSE IF r.pos < Len(input)
                  THEN remaining_bytes(input, r.pos, regress_is_whitespace_fast)
                  ELSE r.pos

parse_identifier_simd(input) ==
    IF input = <<>> THEN 0
    ELSE LET r == simd_chunks(input, regress_is_id_continue_fast)
         IN  IF ~r.ok THEN r.pos
             ELSE remaining_bytes(input, r.pos, regress_is_id_continue_fast)

\* The 8-byte loop of the fallbacks of regress.rs: count bytes of the chunk
\* until one is outside set.
by8_counting(input, set) ==
    LET RECURSIVE go(_)
        go(off) ==
            IF off + 8 <= Len(input)
            THEN LET count == first_failing(SubSeq(input, off + 1, off + 8), set)
                 IN  IF count = 8 THEN go(off + 8) ELSE off + count
            ELSE remaining_bytes(input, off, set)
    IN  go(0)

\* regress.rs: skip_whitespace_bulk and parse_identifier_bulk, which use the
\* bitmask version when the input has at least SIMD_WIDTH bytes.
regress_skip_whitespace_bulk(input) ==
    IF Len(input) >= SIMD_WIDTH THEN skip_whitespace_simd(input)
    ELSE by8_counting(input, regress_is_whitespace_fast)

regress_parse_identifier_bulk(input) ==
    IF Len(input) >= SIMD_WIDTH THEN parse_identifier_simd(input)
    ELSE by8_counting(input, regress_is_id_continue_fast)

(***************************************************************************)
(* Inputs of the helpers: n bytes, all the filler byte except at most one, *)
(* with fillers and odd bytes from whitespace, identifier and other bytes. *)
(***************************************************************************)
Fillers == {SPACE, TAB, 97}

OddBytes == {TAB, 97, 64}

BulkInputs ==
    {[k \in 1..n |-> IF k = j THEN x ELSE f] :
        n \in 0..MaxBulkLen, j \in 0..MaxBulkLen, f \in Fillers, x \in OddBytes}

WhitespaceHelpers ==
    {"skip_whitespace_bulk", "skip_whitespace_simd", "regress::skip_whitespace_bulk"}

IdentifierHelpers ==
    {"parse_identifier_bulk", "parse_identifier_simd", "regress::parse_identifier_bulk"}

BulkInit ==
    /\ invocation \in [fn : WhitespaceHelpers \cup IdentifierHelpers, input : BulkInputs]
    /\ outcome = [returned |-> FALSE]
    /\ CursorIdle /\ UnescapeIdle /\ SpanIdle /\ SessionIdle /\ EnterIdle

\* The helper named by the invocation returns.
BulkReturn(name, value) ==
    /\ invocation.fn = name
    /\ ~outcome.returned
    /\ outcome' = [returned |-> TRUE, value |-> value]
    /\ UNCHANGED <<invocation, cursorVars, unescapeVars, spanVars, sessionVars, enterVars>>

SkipWhitespaceBulk ==
    BulkReturn("skip_whitespace_bulk", skip_whitespace_bulk(invocation.input))

ParseIdentifierBulk ==
    BulkReturn("parse_identifier_bulk", parse_identifier_bulk(invocation.input))

SkipWhitespaceSimd ==
    BulkReturn("skip_whitespace_simd", skip_whitespace_simd(invocation.input))

ParseIdentifierSimd ==
    BulkReturn("parse_identifier_simd", parse_identifier_simd(invocation.input))

RegressSkipWhitespaceBulk ==
    BulkReturn("regress::skip_whitespace_bulk", regress_skip_whitespace_bulk(invocation.input))

RegressParseIdentifierBulk ==
    BulkReturn("regress::parse_identifier_bulk", regress_parse_identifier_bulk(invocation.input))

BulkNext ==
    \/ SkipWhitespaceBulk
    \/ ParseIdentifierBulk
    \/ SkipWhitespaceSimd
    \/ ParseIdentifierSimd
    \/ RegressSkipWhitespaceBulk
    \/ RegressParseIdentifierBulk

SpecBulk == BulkInit /\ [][BulkNext]_vars

(***************************************************************************)
(* C33: every bulk helper returns the boundary of a byte-by-byte scan:     *)
(* skip_whitespace_bulk gives the length of the longest prefix of          *)
(* whitespace bytes and parse_identifier_bulk the length of the longest    *)
(* prefix of identifier-continue bytes, for every input and length, in the *)
(* chunked and in the 32-byte bitmask implementation.                      *)
(***************************************************************************)
\* The length of the longest prefix of s made of bytes of set.
LongestPrefix(s, set) ==
    CHOOSE k \in 0..Len(s) :
        /\ \A i \in 1..k : s[i] \in set
        /\ k = Len(s) \/ s[k + 1] \notin set

C33_BulkMatchesScalar ==
    outcome.returned =>
        /\ invocation.fn \in WhitespaceHelpers =>
               outcome.value = LongestPrefix(invocation.input, is_whitespace_byte)
        /\ invocation.fn \in IdentifierHelpers =>
               outcome.value = LongestPrefix(invocation.input, is_id_continue_byte)

\* 66 bytes, all spaces but an `a` at offset 40: the bitmask version passes one
\* whole chunk and stops inside the second.
C33_Witness ==
    /\ invocation.fn = "skip_whitespace_simd"
    /\ Len(invocation.input) = 66
    /\ invocation.input[41] = 97
    /\ invocation.input[1] = SPACE
    /\ outcome = [returned |-> TRUE, value |-> 40]

(***************************************************************************)
(*            Sessions, threads and the thread-local cache                 *)
(*                  (crates/interface/src/session.rs)                      *)
(* Sessions are built and used from two threads; enter_parallel builds a   *)
(* pool whose worker threads live until the call returns.                  *)
(***************************************************************************)
\* The thread counts of the sessions built: sequential and parallel.
PoolThreadCounts == {1, 2}

\* The ids given with SessionBuilder::session_id, the setter derive_builder
\* generates for the field; NoId when the setter is not called.
ExplicitIds == {0}

NoId == -1

\* SESSION_COUNTER.fetch_add(1, Relaxed) not adding anything.
fetch_add_Stale(counter) == [value |-> counter, counter |-> counter]

\* SESSION_COUNTER.fetch_add(1, Relaxed): one atomic step that returns the old
\* value (the counter is a usize; MaxSessions builds do not wrap it).
fetch_add(counter) == [value |-> counter, counter |-> counter + 1]

\* Session::get_cached_source_map on a thread whose cache holds `cache`: the
\* Arc returned and what the cache holds afterwards.
get_cached_source_map(cache, s) ==
    IF cache.set /\ cache.id = s.session_id
    THEN [sm |-> cache.sm, cache |-> cache]
    ELSE [sm |-> s.source_map, cache |-> Cached(s.session_id, s.source_map)]

\* SessionGlobals::with_or_default and with_source_map on a thread whose
\* globals hold `globals`: what the globals hold while f runs and once it has
\* returned.
with_source_map(globals, source_map) == [during |-> source_map, after |-> globals]

\* The sessions that are built and not dropped.
Live == {k \in 1..Len(sessions) : ~sessions[k].dropped}

\* The worker threads of the pool built by calling thread t.
PoolOf(t) == IF t \in Entering THEN WorkerThreads ELSE {}

Owner(w) == CHOOSE t \in Entering : w \in PoolOf(t)

\* Thread t is running code that can call into a session.
Running(t) ==
    IF t \in Callers THEN ~minting[t].busy
    ELSE workers[t].state = "ready" /\ workers[t].ran # {}

EnterInit ==
    /\ SESSION_COUNTER = 0
    /\ arcs = 0
    /\ builder = [dcx |-> NoDcx, source_map |-> None, threads |-> None]
    /\ sess = [state |-> "none"]
    /\ cores = 1
    /\ stack = <<>> /\ pool = {} /\ log = <<>>
    /\ EnterIdle
    /\ CursorIdle /\ UnescapeIdle /\ SpanIdle /\ CallIdle

\* What the actions of this part leave alone.
enterRest == <<builder, sess, cores, stack, pool, log,
               cursorVars, unescapeVars, spanVars, callVars>>

\* SessionBuilder::build on thread t up to the default of session_id: the id is
\* the one given to the builder, or is taken from the counter.
MintId(t) ==
    /\ ~minting[t].busy
    /\ entered[t].fn = "none"
    /\ Len(sessions) + Cardinality({u \in Callers : minting[u].busy}) < MaxSessions
    /\ \E id \in {NoId} \cup ExplicitIds, n \in PoolThreadCounts :
          LET r == IF id = NoId THEN fetch_add(SESSION_COUNTER)
                   ELSE [value |-> id, counter |-> SESSION_COUNTER]
          IN  /\ minting' = [minting EXCEPT ![t] =
                    [busy |-> TRUE, session_id |-> r.value, explicit |-> id # NoId,
                     threads |-> n]]
              /\ SESSION_COUNTER' = r.counter
    /\ UNCHANGED <<arcs, sessions, SOURCE_MAP_CACHE, session_globals, entered, workers,
                   got, enterRest>>

\* build returns on thread t: the session has its own source map.
FinishBuild(t) ==
    /\ minting[t].busy
    /\ arcs' = arcs + 1
    /\ sessions' = Append(sessions,
          [session_id |-> minting[t].session_id, source_map |-> arcs + 1,
           threads |-> minting[t].threads, explicit |-> minting[t].explicit,
           dropped |-> FALSE])
    /\ minting' = [minting EXCEPT ![t] = NotMinting]
    /\ UNCHANGED <<SESSION_COUNTER, SOURCE_MAP_CACHE, session_globals, entered, workers,
                   got, enterRest>>

\* A session no call is using is dropped.
DropSession(k) ==
    /\ k \in Live
    /\ \A t \in Callers : entered[t].fn # "none" => entered[t].sess # k
    /\ sessions' = [sessions EXCEPT ![k].dropped = TRUE]
    /\ UNCHANGED <<SESSION_COUNTER, arcs, minting, SOURCE_MAP_CACHE, session_globals,
                   entered, workers, got, enterRest>>

\* get_cached_source_map / clone_source_map through session k on thread t.
GetCachedSourceMap(t, k) ==
    /\ Running(t)
    /\ k \in Live
    /\ LET r == get_cached_source_map(SOURCE_MAP_CACHE[t], sessions[k])
       IN  /\ SOURCE_MAP_CACHE' = [SOURCE_MAP_CACHE EXCEPT ![t] = r.cache]
           /\ got' = [thread |-> t, sess |-> k, sm |-> r.sm]
    /\ UNCHANGED <<SESSION_COUNTER, arcs, sessions, minting, session_globals, entered,
                   workers, enterRest>>

\* Session::enter on a calling thread: the cached source map is put in the
\* session globals for the time f runs.
Enter(t, k) ==
    /\ ~minting[t].busy
    /\ entered[t].fn = "none"
    /\ k \in Live
    /\ LET r == get_cached_source_map(SOURCE_MAP_CACHE[t], sessions[k])
       IN  /\ SOURCE_MAP_CACHE' = [SOURCE_MAP_CACHE EXCEPT ![t] = r.cache]
           /\ got' = [thread |-> t, sess |-> k, sm |-> r.sm]
           /\ session_globals' = [session_globals EXCEPT ![t] =
                 with_source_map(session_globals[t], r.sm).during]
           /\ entered' = [entered EXCEPT ![t] =
                 [fn |-> "enter", sess |-> k,
                  saved |-> with_source_map(session_globals[t], r.sm).after,
                  state |-> "running f", on |-> t]]
    /\ UNCHANGED <<SESSION_COUNTER, arcs, sessions, minting, workers, enterRest>>

\* The worker threads build_scoped spawns for session s: none when the pool uses
\* the current thread.  Each captures session_id and cached_source_map.
spawned_workers(t, s, cached_source_map) ==
    [w \in WorkerThreads |->
        IF w \in PoolOf(t) /\ s.threads > 1
        THEN [state |-> "spawned", inits |-> 0, ran |-> {},
              session_id |-> s.session_id, cached_source_map |-> cached_source_map]
        ELSE workers[w]]

\* Session::enter_parallel on a calling thread that is in no pool: the cached
\* source map is put in the session globals and run_in_thread_pool_with_globals
\* builds the pool, or fails to.
EnterParallel(t, k) ==
    /\ ~minting[t].busy
    /\ entered[t].fn = "none"
    /\ k \in Live
    /\ LET r == get_cached_source_map(SOURCE_MAP_CACHE[t], sessions[k])
           again == get_cached_source_map(r.cache, sessions[k])
           g == with_source_map(session_globals[t], r.sm)
       IN  /\ SOURCE_MAP_CACHE' = [SOURCE_MAP_CACHE EXCEPT ![t] = again.cache]
           /\ got' = [thread |-> t, sess |-> k, sm |-> again.sm]
           /\ session_globals' = [session_globals EXCEPT ![t] = g.during]
           /\ \/ /\ sessions[k].threads = 1
                 /\ entered' = [entered EXCEPT ![t] =
                       [fn |-> "enter_parallel", sess |-> k, saved |-> g.after,
                        state |-> "running f", on |-> t]]
                 /\ UNCHANGED workers
              \/ /\ sessions[k].threads > 1
                 /\ entered' = [entered EXCEPT ![t] =
                       [fn |-> "enter_parallel", sess |-> k, saved |-> g.after,
                        state |-> "installing", on |-> "none"]]
                 /\ workers' = spawned_workers(t, sessions[k], again.sm)
              \/ /\ entered' = [entered EXCEPT ![t] =
                       [fn |-> "enter_parallel", sess |-> k, saved |-> g.after,
                        state |-> "fatal", on |-> "none"]]
                 /\ UNCHANGED workers
    /\ UNCHANGED <<SESSION_COUNTER, arcs, sessions, minting, enterRest>>

\* The closure build_scoped runs on each new worker thread before thread.run():
\* session_globals.set and the thread-local cache.
worker_init(w) ==
    [cache |-> Cached(workers[w].session_id, workers[w].cached_source_map),
     globals |-> session_globals[Owner(w)],
     worker |-> [workers[w] EXCEPT !.state = "ready", !.inits = @ + 1]]

WorkerInit(w) ==
    /\ workers[w].state = "spawned"
    /\ LET r == worker_init(w)
       IN  /\ SOURCE_MAP_CACHE' = [SOURCE_MAP_CACHE EXCEPT ![w] = r.cache]
           /\ session_globals' = [session_globals EXCEPT ![w] = r.globals]
           /\ workers' = [workers EXCEPT ![w] = r.worker]
    /\ UNCHANGED <<SESSION_COUNTER, arcs, sessions, minting, entered, got, enterRest>>

\* pool.install(f): f starts on a worker thread that runs the pool's jobs.
InstallF(t) ==
    /\ entered[t].fn = "enter_parallel" /\ entered[t].state = "installing"
    /\ \E w \in PoolOf(t) :
          /\ workers[w].state = "ready"
          /\ entered' = [entered EXCEPT ![t].state = "running f", ![t].on = w]
          /\ workers' = [workers EXCEPT ![w].ran = @ \cup {"f"}]
    /\ UNCHANGED <<SESSION_COUNTER, arcs, sessions, minting, SOURCE_MAP_CACHE,
                   session_globals, got, enterRest>>

\* A job that f handed to the pool runs on a worker thread.
WorkerRunTask(w) ==
    /\ workers[w].state = "ready"
    /\ entered[Owner(w)].state = "running f"
    /\ "task" \notin workers[w].ran
    /\ workers' = [workers EXCEPT ![w].ran = @ \cup {"task"}]
    /\ UNCHANGED <<SESSION_COUNTER, arcs, sessions, minting, SOURCE_MAP_CACHE,
                   session_globals, entered, got, enterRest>>

\* enter_parallel called from code that runs on a worker thread: the thread is
\* in a pool already, so run_in_thread_pool_with_globals returns f().
NestedEnterParallel(w, k) ==
    /\ w \in WorkerThreads
    /\ Running(w)
    /\ "nested f" \notin workers[w].ran
    /\ k \in Live
    /\ LET r == get_cached_source_map(SOURCE_MAP_CACHE[w], sessions[k])
       IN  /\ SOURCE_MAP_CACHE' = [SOURCE_MAP_CACHE EXCEPT ![w] = r.cache]
           /\ got' = [thread |-> w, sess |-> k, sm |-> r.sm]
    /\ workers' = [workers EXCEPT ![w].ran = @ \cup {"nested f"}]
    /\ UNCHANGED <<SESSION_COUNTER, arcs, sessions, minting, session_globals, entered,
                   enterRest>>

\* f has returned (or the fatal error unwinds): the pool is torn down, its
\* worker threads end with their thread-locals, the session globals of the
\* calling thread are as before the call, and enter or enter_parallel returns.
EnterReturns(t) ==
    /\ entered[t].fn # "none"
    /\ entered[t].state \in {"running f", "fatal"}
    /\ entered' = [entered EXCEPT ![t] = NotEntered]
    /\ workers' = [w \in WorkerThreads |-> IF w \in PoolOf(t) THEN NoWorker ELSE workers[w]]
    /\ SOURCE_MAP_CACHE' =
          [x \in Threads |-> IF x \in PoolOf(t) THEN NoCache ELSE SOURCE_MAP_CACHE[x]]
    /\ session_globals' =
          [x \in Threads |-> IF x \in PoolOf(t) THEN None
                            ELSE IF x = t THEN entered[t].saved
                            ELSE session_globals[x]]
    /\ UNCHANGED <<SESSION_COUNTER, arcs, sessions, minting, got, enterRest>>

EnterNext ==
    \/ \E t \in Callers : MintId(t)
    \/ \E t \in Callers : FinishBuild(t)
    \/ \E k \in 1..MaxSessions : DropSession(k)
    \/ \E t \in Threads, k \in 1..MaxSessions : GetCachedSourceMap(t, k)
    \/ \E t \in Entering, k \in 1..MaxSessions : Enter(t, k)
    \/ \E t \in Entering, k \in 1..MaxSessions : EnterParallel(t, k)
    \/ \E w \in WorkerThreads : WorkerInit(w)
    \/ \E t \in Entering : InstallF(t)
    \/ \E w \in WorkerThreads : WorkerRunTask(w)
    \/ \E w \in WorkerThreads, k \in 1..MaxSessions : NestedEnterParallel(w, k)
    \/ \E t \in Entering : EnterReturns(t)

SpecEnter == EnterInit /\ [][EnterNext]_vars

\* Sessions built and dropped on two threads, and nothing else.
BuildNext ==
    \/ \E t \in Callers : MintId(t)
    \/ \E t \in Callers : FinishBuild(t)
    \/ \E k \in 1..MaxSessions : DropSession(k)

SpecBuild == EnterInit /\ [][BuildNext]_vars


(***************************************************************************)
(* C37: session ids are unique.  Any two sessions built without an         *)
(* explicit id, on one thread or concurrently on two, have different       *)
(* session_id values; a build that has taken its id and not yet returned   *)
(* counts as a session.                                                    *)
(***************************************************************************)
DefaultIds ==
    [k \in {j \in 1..Len(sessions) : ~sessions[j].explicit} |-> sessions[k].session_id]

InFlightIds ==
    [t \in {u \in Callers : minting[u].busy /\ ~minting[u].explicit} |->
        minting[t].session_id]

C37_SessionIdsUnique ==
    /\ \A j, k \in DOMAIN DefaultIds : j # k => DefaultIds[j] # DefaultIds[k]
    /\ \A t, u \in DOMAIN InFlightIds : t # u => InFlightIds[t] # InFlightIds[u]
    /\ \A k \in DOMAIN DefaultIds, t \in DOMAIN InFlightIds : DefaultIds[k] # InFlightIds[t]

\* Two builds ran concurrently and the one that took its id second returned first.
C37_Witness ==
    /\ Len(sessions) = 2
    /\ ~sessions[1].explicit /\ ~sessions[2].explicit
    /\ sessions[1].session_id = 1
    /\ sessions[2].session_id = 0

(***************************************************************************)
(* C35: the thread-local cache never returns another session's source map. *)
(* Whatever calls were made before, by live or dropped sessions on the     *)
(* same thread, get_cached_source_map through session S returns S's own    *)
(* source map.                                                             *)
(***************************************************************************)
C35_CacheReturnsOwnSourceMap ==
    got.thread # "none" => got.sm = sessions[got.sess].source_map

\* Session 2 was asked on a thread whose cache entry was written by session 1,
\* and both sessions were given the same id.
C35_Witness ==
    /\ Len(sessions) = 2
    /\ sessions[1].session_id = sessions[2].session_id
    /\ got.thread = "main" /\ got.sess = 2
    /\ got.sm = sessions[1].source_map


(***************************************************************************)
(* C31: no thread-local state set up for a session outlives the teardown   *)
(* of its pool.  When enter or enter_parallel returns, neither the calling *)
(* thread nor a worker thread of the pool holds the session's source map   *)
(* in its thread-local cache or in its session globals.                    *)
(***************************************************************************)
C31_NoThreadLocalAfterReturn ==
    [][\A t \in Entering :
          EnterReturns(t) =>
             LET sm == sessions[entered[t].sess].source_map
             IN  \A x \in {t} \cup PoolOf(t) :
                    /\ ~(SOURCE_MAP_CACHE'[x].set /\ SOURCE_MAP_CACHE'[x].sm = sm)
                    /\ session_globals'[x] # sm]_vars

\* enter_parallel ran code on a worker thread and has returned: the pool is
\* gone and the calling thread's cache still holds the session's source map.
C31_Witness ==
    /\ entered["main"].fn = "none"
    /\ \A w \in WorkerThreads : workers[w].state = "none"
    /\ got.thread = "solar-0"
    /\ SOURCE_MAP_CACHE["main"].set
    /\ SOURCE_MAP_CACHE["main"].sm = sessions[got.sess].source_map

(***************************************************************************)
(* C36: worker threads are initialised before they run tasks.  Every       *)
(* worker thread of the pool built by enter_parallel gets the session      *)
(* globals and a thread-local cache holding the session's id and source    *)
(* map, once, before it runs anything; enter_parallel called on a worker   *)
(* thread builds no pool and runs f on that thread.                        *)
(***************************************************************************)
C36_WorkersInitialisedBeforeTasks ==
    [][/\ \A w \in WorkerThreads :
             WorkerInit(w) =>
                LET s == sessions[entered[Owner(w)].sess]
                IN  /\ SOURCE_MAP_CACHE'[w] = Cached(s.session_id, s.source_map)
                    /\ session_globals'[w] # None
       /\ \A w \in WorkerThreads :
             workers'[w].state # "none" =>
                /\ workers'[w].inits <= 1
                /\ workers'[w].ran # {} => workers'[w].inits = 1
       /\ \A w \in WorkerThreads, k \in 1..MaxSessions :
             NestedEnterParallel(w, k) =>
                /\ entered' = entered
                /\ \A x \in WorkerThreads : workers'[x].state = workers[x].state
                /\ "nested f" \in workers'[w].ran]_vars

\* Both worker threads of a pool were initialised once and have run tasks with
\* the session's own source map in their caches.
C36_Witness ==
    /\ entered["main"].fn = "enter_parallel"
    /\ \A w \in WorkerThreads :
          /\ workers[w].state = "ready"
          /\ workers[w].inits = 1
          /\ "task" \in workers[w].ran
          /\ SOURCE_MAP_CACHE[w] =
                Cached(sessions[entered["main"].sess].session_id,
                       sessions[entered["main"].sess].source_map)
          /\ session_globals[w] = sessions[entered["main"].sess].source_map


=============================================================================
